---- MODULE Spec2Model ----
(***************************************************************************)
(* worktree-remove: target resolution, the removal-safety guard, the       *)
(* single-target removal protocol (trash, then unregister) and the batch   *)
(* coordinator (resolve, confirm, relocate cwd, execute, report).          *)
(*                                                                         *)
(* Paths are records [root, segs]: the root ("/" or a drive such as "C:")  *)
(* and the sequence of path segments below it.  Raw command-line inputs    *)
(* are records [lead, segs]: lead is "" for a relative or name-like input, *)
(* "/" for a rooted one and "~" for the home shorthand "~/".               *)
(***************************************************************************)
EXTENDS Integers, Sequences, FiniteSets, TLC

VARIABLES
    platform,       \* process.platform: "linux" or "win32"
    opts,           \* [dryRun, assumeYes, force, allowPrompt] handed to removeBatch
    invocationCwd,  \* process.cwd() read at the start of removeBatch
    processCwd,     \* the process working directory (process.chdir changes it)
    dirs,           \* the filesystem: the set of existing directories
    registry,       \* git's registry: the set of registered worktree paths
    pc,             \* position of removeBatch
    exitState,      \* "running", "ok" (returned), "cancelled" (returned after a decline), "fatal" (exit 1)
    consumed,       \* number of raw targets the resolve loop has read
    resolved,       \* resolveBatchTargets' result list so far
    attempts,       \* per resolved target: the state of its performWorktreeRemoval call
    log,            \* observation record: prompts shown, collaborator calls issued
    call            \* resolveWorktreeTarget called on its own: arguments and results

vars == <<platform, opts, invocationCwd, processCwd, dirs, registry, pc,
          exitState, consumed, resolved, attempts, log, call>>

----------------------------------------------------------------------------
(* Bounds *)

\* longest command-line target list
MaxTargets == 2

\* p-limit concurrency of the execution phase
PoolLimit == 4

\* the number of targets of the batches that fill the pool
PoolTargets == 5

\* the number of calls of resolveWorktreeTarget made with the same input and
\* registry
MaxCalls == 2

\* the number of lines of `git worktree list --porcelain` output that are parsed
MaxLines == 4

----------------------------------------------------------------------------
(* Strings and paths *)

NoPath == [root |-> "", segs |-> <<>>]

\* String.prototype.toLowerCase over the segment and root alphabet of the model
ToLower(s) ==
    CASE s = "REPO" -> "repo"
      [] s = "Feat" -> "feat"
      [] s = "C:" -> "c:"
      [] s = "D:" -> "d:"
      [] OTHER -> s

LowerSegs(segs) == [i \in 1..Len(segs) |-> ToLower(segs[i])]

\* segments whose first character is "."
DotLeading(seg) == seg \in {".", "..", ".git", ".hidden"}

RECURSIVE NormalizeSegs(_, _)
\* path normalization of node:path (normalizeString): "." and "" are dropped,
\* ".." removes the segment before it and is dropped at the root
NormalizeSegs(done, rest) ==
    IF rest = <<>> THEN done
    ELSE LET s == Head(rest) IN
         IF s = "." \/ s = "" THEN NormalizeSegs(done, Tail(rest))
         ELSE IF s = ".."
              THEN NormalizeSegs(IF done = <<>> THEN done
                                 ELSE SubSeq(done, 1, Len(done) - 1), Tail(rest))
              ELSE NormalizeSegs(Append(done, s), Tail(rest))

\* pathApi.resolve(base, raw) for an absolute base
PathResolve(base, raw) ==
    IF raw.lead = "/"
    THEN [root |-> base.root, segs |-> NormalizeSegs(<<>>, raw.segs)]
    ELSE [root |-> base.root, segs |-> NormalizeSegs(<<>>, base.segs \o raw.segs)]

\* pathApi.join(directory, name...) for an absolute directory
PathJoin(directory, names) ==
    [root |-> directory.root, segs |-> NormalizeSegs(<<>>, directory.segs \o names)]

PathBasename(p) == IF p.segs = <<>> THEN "" ELSE p.segs[Len(p.segs)]

PathDirname(p) ==
    [root |-> p.root,
     segs |-> IF p.segs = <<>> THEN <<>> ELSE SubSeq(p.segs, 1, Len(p.segs) - 1)]

normalizePathKey(p, plat) ==
    IF plat = "win32"
    THEN [root |-> ToLower(p.root), segs |-> LowerSegs(p.segs)]
    ELSE p

RECURSIVE CommonPrefixLen(_, _)
CommonPrefixLen(a, b) ==
    IF a = <<>> \/ b = <<>> \/ Head(a) # Head(b) THEN 0
    ELSE 1 + CommonPrefixLen(Tail(a), Tail(b))

\* pathApi.relative(from, to): the result is absolute when the roots differ
\* (win32, another drive); otherwise `ups` ".." segments followed by `rest`.
\* win32 compares case-insensitively.
PathRelative(from, to, plat) ==
    LET f == IF plat = "win32" THEN normalizePathKey(from, plat) ELSE from
        t == IF plat = "win32" THEN normalizePathKey(to, plat) ELSE to
        k == CommonPrefixLen(f.segs, t.segs)
    IN  IF f.root # t.root
        THEN [abs |-> TRUE, ups |-> 0, rest |-> to.segs]
        ELSE [abs |-> FALSE, ups |-> Len(f.segs) - k,
              rest |-> SubSeq(to.segs, k + 1, Len(to.segs))]

isPathWithin(basePath, candidatePath, plat, includeEqual) ==
    LET relative == PathRelative(basePath, candidatePath, plat) IN
    IF ~relative.abs /\ relative.ups = 0 /\ relative.rest = <<>> THEN includeEqual
    ELSE IF relative.abs THEN FALSE
    ELSE IF relative.ups > 0 THEN FALSE
    ELSE TRUE

isPathEqualOrWithin(basePath, candidatePath, plat) ==
    isPathWithin(basePath, candidatePath, plat, TRUE)

isPathStrictlyWithin(basePath, candidatePath, plat) ==
    isPathWithin(basePath, candidatePath, plat, FALSE)

----------------------------------------------------------------------------
(* The repository the tool runs in: what getWorktreeInfo returns *)

RootOf(plat) == IF plat = "win32" THEN "C:" ELSE "/"

AbsPath(plat, segs) == [root |-> RootOf(plat), segs |-> segs]

\* os.homedir()
HomeDir(plat) == AbsPath(plat, <<"home">>)

NoBranch == <<>>

\* the primary working copy (first entry of `git worktree list`)
MainPath(plat) == AbsPath(plat, <<"home", "ws", "repo">>)

FeatPath(plat) == AbsPath(plat, <<"home", "ws", "repo-feat">>)
NestedPath(plat) == AbsPath(plat, <<"home", "ws", "repo", "nested">>)
OuterPath(plat) == AbsPath(plat, <<"home", "ws">>)
OrphanPath(plat) == AbsPath(plat, <<"home", "ws", "orphan">>)
GitDirPath(plat) == AbsPath(plat, <<"home", "ws", "repo", ".git">>)
\* two unregistered directories beside the main worktree, one named as the
\* other with the main worktree's prefix
TwinPath(plat) == AbsPath(plat, <<"home", "ws", "twin">>)
RepoTwinPath(plat) == AbsPath(plat, <<"home", "ws", "repo-twin">>)
\* the filesystem root
RootPath(plat) == AbsPath(plat, <<>>)

\* the registered entries other than the primary one: a sibling worktree on
\* branch feat, a worktree registered inside the primary copy, and a detached
\* worktree whose directory contains the primary copy
Worktrees(plat) ==
    << [path |-> FeatPath(plat), branch |-> <<"feat">>, isDetached |-> FALSE],
       [path |-> NestedPath(plat), branch |-> <<"nested">>, isDetached |-> FALSE],
       [path |-> OuterPath(plat), branch |-> NoBranch, isDetached |-> TRUE] >>

NoWorktree == [path |-> NoPath, branch |-> NoBranch, isDetached |-> FALSE]

----------------------------------------------------------------------------
(* TargetResolver: resolveWorktreeTarget *)

BlankInput == [lead |-> "", segs |-> <<>>]

looksLikePathInput(input) ==
    IF input = BlankInput THEN FALSE
    ELSE IF input.lead = "" /\ input.segs # <<>> /\ DotLeading(input.segs[1]) THEN TRUE
    ELSE IF input.lead = "~" THEN TRUE
    ELSE input.lead = "/"

expandHomeDirectory(input, plat) ==
    IF input.lead # "~" THEN input
    ELSE [lead |-> "/", segs |-> HomeDir(plat).segs \o input.segs]

\* a check that finds no ".." segment in any name
containsParentDirectorySegmentNever(segs) == FALSE

containsParentDirectorySegment(segs) ==
    \E i \in 1..Len(segs) : segs[i] = ".."

\* String.replace(/^prefix\//, ""): the prefix is removed only when followed by "/"
StripPrefix(segs, prefix) ==
    IF Len(segs) > Len(prefix) /\ SubSeq(segs, 1, Len(prefix)) = prefix
    THEN SubSeq(segs, Len(prefix) + 1, Len(segs))
    ELSE segs

normalizeBranchName(segs) ==
    StripPrefix(StripPrefix(StripPrefix(StripPrefix(segs,
        <<"refs", "heads">>), <<"refs", "remotes", "origin">>),
        <<"remotes", "origin">>), <<"origin">>)

\* Map.get after the Map.set loop over the entries: the last entry with the key
LastOf(worktrees, hits) ==
    IF hits = {} THEN NoWorktree
    ELSE worktrees[CHOOSE i \in hits : \A j \in hits : j <= i]

worktreesByBranch(worktrees, branch) ==
    LastOf(worktrees,
           {i \in 1..Len(worktrees) :
                worktrees[i].branch # NoBranch /\ worktrees[i].branch = branch})

worktreesByPath(worktrees, p, plat) ==
    LastOf(worktrees,
           {i \in 1..Len(worktrees) :
                normalizePathKey(worktrees[i].path, plat) = normalizePathKey(p, plat)})

\* Array.filter keeps the order of the entries
basenameMatches(worktrees, input, plat) ==
    LET Matches(w) ==
            /\ input.lead = ""
            /\ Len(input.segs) = 1
            /\ IF plat = "win32"
               THEN ToLower(PathBasename(w.path)) = ToLower(input.segs[1])
               ELSE PathBasename(w.path) = input.segs[1]
    IN  SelectSeq(worktrees, Matches)

Registered(w, isPathInput, input) ==
    [kind |-> "registered", worktree |-> w, candidatePaths |-> <<>>,
     resolvedInputPath |-> NoPath, isPathInput |-> isPathInput, input |-> input]

Ambiguous(input) ==
    [kind |-> "ambiguous", worktree |-> NoWorktree, candidatePaths |-> <<>>,
     resolvedInputPath |-> NoPath, isPathInput |-> FALSE, input |-> input]

Candidates(paths, resolvedInputPath, isPathInput, input) ==
    [kind |-> "candidates", worktree |-> NoWorktree, candidatePaths |-> paths,
     resolvedInputPath |-> resolvedInputPath, isPathInput |-> isPathInput,
     input |-> input]

\* Each local of resolveWorktreeTarget is computed once and handed on as an
\* argument, in the order the function computes them.

\* a normalization that is applied to path-like input as well
NormalizedBranchOfAnyInput(input, isPathInput) ==
    IF normalizeBranchName(input.segs) = <<"">> THEN NoBranch
    ELSE normalizeBranchName(input.segs)

\* an empty normalized name (input "origin/") is falsy: the code treats it as
\* undefined wherever it tests normalizedBranch
NormalizedBranch(input, isPathInput) ==
    IF isPathInput \/ normalizeBranchName(input.segs) = <<"">> THEN NoBranch
    ELSE normalizeBranchName(input.segs)

ResolvedInputPath(input, isPathInput, cwd, plat) ==
    PathResolve(cwd, IF isPathInput THEN expandHomeDirectory(input, plat) ELSE input)

\* pathApi.join(parentDirectory, `${mainRepoName}-${normalizedBranch}`)
ExpectedPath(normalizedBranch, mainPath) ==
    IF normalizedBranch = NoBranch THEN NoPath
    ELSE PathJoin(PathDirname(mainPath),
                  <<PathBasename(mainPath) \o "-" \o Head(normalizedBranch)>>
                      \o Tail(normalizedBranch))

HasPathSeparator(input) == Len(input.segs) > 1 \/ input.lead # ""

SiblingPath(input, isPathInput, mainPath) ==
    IF isPathInput \/ HasPathSeparator(input) THEN NoPath
    ELSE PathJoin(PathDirname(mainPath), input.segs)

ByBranch(normalizedBranch, worktrees) ==
    IF normalizedBranch = NoBranch THEN NoWorktree
    ELSE worktreesByBranch(worktrees, normalizedBranch)

ByOptionalPath(worktrees, p, plat) ==
    IF p = NoPath THEN NoWorktree ELSE worktreesByPath(worktrees, p, plat)

\* a ?? b ?? c
FirstDefined(a, b, c) ==
    IF a # NoWorktree THEN a ELSE IF b # NoWorktree THEN b ELSE c

DirectMatch(worktrees, resolvedInputPath, expectedPath, siblingPath, plat) ==
    FirstDefined(worktreesByPath(worktrees, resolvedInputPath, plat),
                 ByOptionalPath(worktrees, expectedPath, plat),
                 ByOptionalPath(worktrees, siblingPath, plat))

Defined(paths) ==
    LET IsPath(p) == p # NoPath IN SelectSeq(paths, IsPath)

\* a candidate list with the literal sibling ahead of the conventional one
CandidatePathsLiteralFirst(isPathInput, resolvedInputPath, expectedPath, siblingPath) ==
    IF isPathInput THEN <<resolvedInputPath>>
    ELSE Defined(<<siblingPath, expectedPath>>)

CandidatePaths(isPathInput, resolvedInputPath, expectedPath, siblingPath) ==
    IF isPathInput THEN <<resolvedInputPath>>
    ELSE Defined(<<expectedPath, siblingPath>>)

\* a resolver that tries the path matches before the branch match
ResolveDecisionPathFirst(input, isPathInput, normalizedBranch, byBranch, directMatch, matches, candidatePaths, resolvedInputPath) ==
    IF normalizedBranch # NoBranch /\ containsParentDirectorySegment(normalizedBranch)
    THEN Ambiguous(input)
    ELSE IF directMatch # NoWorktree THEN Registered(directMatch, isPathInput, input)
    ELSE IF byBranch # NoWorktree THEN Registered(byBranch, isPathInput, input)
    ELSE IF Len(matches) = 1 THEN Registered(matches[1], isPathInput, input)
    ELSE IF Len(matches) > 1 THEN Ambiguous(input)
    ELSE Candidates(candidatePaths, resolvedInputPath, isPathInput, input)

\* a resolver that takes the first of several basename matches
ResolveDecisionFirstMatch(input, isPathInput, normalizedBranch, byBranch, directMatch, matches, candidatePaths, resolvedInputPath) ==
    IF normalizedBranch # NoBranch /\ containsParentDirectorySegment(normalizedBranch)
    THEN Ambiguous(input)
    ELSE IF byBranch # NoWorktree THEN Registered(byBranch, isPathInput, input)
    ELSE IF directMatch # NoWorktree THEN Registered(directMatch, isPathInput, input)
    ELSE IF Len(matches) >= 1 THEN Registered(matches[1], isPathInput, input)
    ELSE Candidates(candidatePaths, resolvedInputPath, isPathInput, input)

\* a resolver that tries the basename matches before the path matches
ResolveDecisionBasenameFirst(input, isPathInput, normalizedBranch, byBranch, directMatch, matches, candidatePaths, resolvedInputPath) ==
    IF normalizedBranch # NoBranch /\ containsParentDirectorySegment(normalizedBranch)
    THEN Ambiguous(input)
    ELSE IF byBranch # NoWorktree THEN Registered(byBranch, isPathInput, input)
    ELSE IF Len(matches) = 1 THEN Registered(matches[1], isPathInput, input)
    ELSE IF Len(matches) > 1 THEN Ambiguous(input)
    ELSE IF directMatch # NoWorktree THEN Registered(directMatch, isPathInput, input)
    ELSE Candidates(candidatePaths, resolvedInputPath, isPathInput, input)

\* the returns of resolveWorktreeTarget, in order
ResolveDecision(input, isPathInput, normalizedBranch, byBranch, directMatch, matches, candidatePaths, resolvedInputPath) ==
    IF normalizedBranch # NoBranch /\ containsParentDirectorySegment(normalizedBranch)
    THEN Ambiguous(input)
    ELSE IF byBranch # NoWorktree THEN Registered(byBranch, isPathInput, input)
    ELSE IF directMatch # NoWorktree THEN Registered(directMatch, isPathInput, input)
    ELSE IF Len(matches) = 1 THEN Registered(matches[1], isPathInput, input)
    ELSE IF Len(matches) > 1 THEN Ambiguous(input)
    ELSE Candidates(candidatePaths, resolvedInputPath, isPathInput, input)

ResolveWithPaths(input, isPathInput, normalizedBranch, resolvedInputPath, expectedPath, siblingPath, worktrees, plat) ==
    ResolveDecision(input, isPathInput, normalizedBranch,
                    ByBranch(normalizedBranch, worktrees),
                    DirectMatch(worktrees, resolvedInputPath, expectedPath,
                                siblingPath, plat),
                    basenameMatches(worktrees, input, plat),
                    CandidatePaths(isPathInput, resolvedInputPath, expectedPath,
                                   siblingPath),
                    resolvedInputPath)

ResolveWithBranch(input, isPathInput, normalizedBranch, cwd, mainPath, worktrees, plat) ==
    ResolveWithPaths(input, isPathInput, normalizedBranch,
                     ResolvedInputPath(input, isPathInput, cwd, plat),
                     ExpectedPath(normalizedBranch, mainPath),
                     SiblingPath(input, isPathInput, mainPath),
                     worktrees, plat)

ResolveClassified(input, isPathInput, cwd, mainPath, worktrees, plat) ==
    ResolveWithBranch(input, isPathInput, NormalizedBranch(input, isPathInput),
                      cwd, mainPath, worktrees, plat)

resolveWorktreeTarget(input, cwd, mainPath, worktrees, plat) ==
    ResolveClassified(input, looksLikePathInput(input), cwd, mainPath, worktrees,
                      plat)

----------------------------------------------------------------------------
(* Filesystem collaborator *)

\* fs.stat(path).isDirectory(); a win32 filesystem is case-insensitive
directoryExists(p, fs, plat) ==
    \E d \in fs : normalizePathKey(d, plat) = normalizePathKey(p, plat)

\* what is left after the directory p and everything below it has gone
RemoveTree(fs, p, plat) ==
    {d \in fs : ~isPathEqualOrWithin(p, d, plat)}

----------------------------------------------------------------------------
(* resolveRemovalTarget: resolution plus candidate probing *)

Resolution(error, targetPath, registeredPath, isPathInputTarget) ==
    [error |-> error, targetPath |-> targetPath, registeredPath |-> registeredPath,
     isPathInputTarget |-> isPathInputTarget]

\* the candidates that exist, in candidate order
ExistingCandidates(candidatePaths, fs, plat) ==
    LET Exists(c) == directoryExists(c, fs, plat)
    IN  SelectSeq(candidatePaths, Exists)

\* a probe that takes the first candidate when no candidate exists
ProbeResultFirstCandidate(resolvedTarget, existing) ==
    IF resolvedTarget.kind = "ambiguous"
    THEN Resolution("ambiguous", NoPath, NoPath, FALSE)
    ELSE IF resolvedTarget.kind = "registered"
    THEN IF resolvedTarget.worktree.path.segs = <<>>
         THEN Resolution("root", NoPath, NoPath, resolvedTarget.isPathInput)
         ELSE Resolution("", resolvedTarget.worktree.path,
                         resolvedTarget.worktree.path, resolvedTarget.isPathInput)
    ELSE IF existing = <<>>
    THEN Resolution("", resolvedTarget.candidatePaths[1], NoPath,
                    resolvedTarget.isPathInput)
    ELSE IF Len(existing) > 1
    THEN Resolution("multiple", NoPath, NoPath, resolvedTarget.isPathInput)
    ELSE IF existing[1].segs = <<>>
    THEN Resolution("root", NoPath, NoPath, resolvedTarget.isPathInput)
    ELSE Resolution("", existing[1], NoPath, resolvedTarget.isPathInput)

\* a probe that takes the first of two existing candidates
ProbeResultFirstExisting(resolvedTarget, existing) ==
    IF resolvedTarget.kind = "ambiguous"
    THEN Resolution("ambiguous", NoPath, NoPath, FALSE)
    ELSE IF resolvedTarget.kind = "registered"
    THEN IF resolvedTarget.worktree.path.segs = <<>>
         THEN Resolution("root", NoPath, NoPath, resolvedTarget.isPathInput)
         ELSE Resolution("", resolvedTarget.worktree.path,
                         resolvedTarget.worktree.path, resolvedTarget.isPathInput)
    ELSE IF existing = <<>>
    THEN Resolution("notFound", NoPath, NoPath, resolvedTarget.isPathInput)
    ELSE IF existing[1].segs = <<>>
    THEN Resolution("root", NoPath, NoPath, resolvedTarget.isPathInput)
    ELSE Resolution("", existing[1], NoPath, resolvedTarget.isPathInput)

\* a probe without the check for a filesystem root
ProbeResultNoRootCheck(resolvedTarget, existing) ==
    IF resolvedTarget.kind = "ambiguous"
    THEN Resolution("ambiguous", NoPath, NoPath, FALSE)
    ELSE IF resolvedTarget.kind = "registered"
    THEN Resolution("", resolvedTarget.worktree.path,
                    resolvedTarget.worktree.path, resolvedTarget.isPathInput)
    ELSE IF existing = <<>>
    THEN Resolution("notFound", NoPath, NoPath, resolvedTarget.isPathInput)
    ELSE IF Len(existing) > 1
    THEN Resolution("multiple", NoPath, NoPath, resolvedTarget.isPathInput)
    ELSE Resolution("", existing[1], NoPath, resolvedTarget.isPathInput)

\* the second half of resolveRemovalTarget: the target path, then the root check
ProbeResult(resolvedTarget, existing) ==
    IF resolvedTarget.kind = "ambiguous"
    THEN Resolution("ambiguous", NoPath, NoPath, FALSE)
    ELSE IF resolvedTarget.kind = "registered"
    THEN IF resolvedTarget.worktree.path.segs = <<>>
         THEN Resolution("root", NoPath, NoPath, resolvedTarget.isPathInput)
         ELSE Resolution("", resolvedTarget.worktree.path,
                         resolvedTarget.worktree.path, resolvedTarget.isPathInput)
    ELSE IF existing = <<>>
    THEN Resolution("notFound", NoPath, NoPath, resolvedTarget.isPathInput)
    ELSE IF Len(existing) > 1
    THEN Resolution("multiple", NoPath, NoPath, resolvedTarget.isPathInput)
    ELSE IF existing[1].segs = <<>>
    THEN Resolution("root", NoPath, NoPath, resolvedTarget.isPathInput)
    ELSE Resolution("", existing[1], NoPath, resolvedTarget.isPathInput)

ProbeCandidates(resolvedTarget, fs, plat) ==
    ProbeResult(resolvedTarget,
                ExistingCandidates(resolvedTarget.candidatePaths, fs, plat))

resolveRemovalTarget(input, cwd, mainPath, worktrees, plat, fs) ==
    ProbeCandidates(resolveWorktreeTarget(input, cwd, mainPath, worktrees, plat),
                    fs, plat)

----------------------------------------------------------------------------
(* RemovalSafetyGuard: assertRemovalSafe; "" when the target is accepted *)

MainRefusal == "Refusing to remove the main worktree."

ContainsRefusal == "Refusing to remove a directory containing the main worktree."

InsideRefusal ==
    "Refusing to remove an unregistered directory inside the main worktree."

\* a guard whose first rule compares the paths as given, without normalizePathKey
assertRemovalSafeExactMain(targetPath, mainPath, registeredPath, plat) ==
    IF targetPath = mainPath
    THEN MainRefusal
    ELSE IF isPathStrictlyWithin(targetPath, mainPath, plat)
    THEN ContainsRefusal
    ELSE IF registeredPath = NoPath /\ isPathStrictlyWithin(mainPath, targetPath, plat)
    THEN InsideRefusal
    ELSE ""

\* a guard whose third rule does not look at registeredPath
assertRemovalSafeNestedAlways(targetPath, mainPath, registeredPath, plat) ==
    IF normalizePathKey(targetPath, plat) = normalizePathKey(mainPath, plat)
    THEN MainRefusal
    ELSE IF isPathStrictlyWithin(targetPath, mainPath, plat)
    THEN ContainsRefusal
    ELSE IF isPathStrictlyWithin(mainPath, targetPath, plat)
    THEN InsideRefusal
    ELSE ""

\* a guard whose second rule spares registered worktrees
assertRemovalSafeAncestorUnregistered(targetPath, mainPath, registeredPath, plat) ==
    IF normalizePathKey(targetPath, plat) = normalizePathKey(mainPath, plat)
    THEN MainRefusal
    ELSE IF registeredPath = NoPath /\ isPathStrictlyWithin(targetPath, mainPath, plat)
    THEN ContainsRefusal
    ELSE IF registeredPath = NoPath /\ isPathStrictlyWithin(mainPath, targetPath, plat)
    THEN InsideRefusal
    ELSE ""

assertRemovalSafe(targetPath, mainPath, registeredPath, plat) ==
    IF normalizePathKey(targetPath, plat) = normalizePathKey(mainPath, plat)
    THEN MainRefusal
    ELSE IF isPathStrictlyWithin(targetPath, mainPath, plat)
    THEN ContainsRefusal
    ELSE IF registeredPath = NoPath /\ isPathStrictlyWithin(mainPath, targetPath, plat)
    THEN InsideRefusal
    ELSE ""

getRemovalStatus(registeredPath, isPathInputTarget) ==
    IF registeredPath # NoPath THEN "registered worktree"
    ELSE IF isPathInputTarget THEN "unregistered directory"
    ELSE "orphaned directory"

----------------------------------------------------------------------------
(* Version-control collaborator: git worktree remove / prune *)

GitResult(res, reg, fs) == [res |-> res, registry |-> reg, dirs |-> fs]

\* `git worktree remove [--force] p`: "gone" when p is not a working tree or its
\* directory does not exist; otherwise it may delete the directory and the
\* registration ("ok"), refuse a modified worktree without --force
\* ("needsForce") or fail for another reason ("other")
GitRemove(p, forced, reg, fs, plat) ==
    IF p \notin reg \/ ~directoryExists(p, fs, plat)
    THEN {GitResult("gone", reg, fs)}
    ELSE {GitResult("ok", reg \ {p}, RemoveTree(fs, p, plat)),
          GitResult("other", reg, fs)}
         \cup (IF forced THEN {} ELSE {GitResult("needsForce", reg, fs)})

\* `git worktree prune`: drops the registrations whose directory is missing
GitPrune(reg, fs, plat) ==
    {GitResult("ok", {q \in reg : directoryExists(q, fs, plat)}, fs),
     GitResult("fail", reg, fs)}

UnregisterResult(ok, calls, replies, reg, fs) ==
    [ok |-> ok, calls |-> calls, replies |-> replies, registry |-> reg, dirs |-> fs]

\* a fallback that prunes after every failed remove
UnregisterAfterFailureAlwaysPrunes(message, calls, replies, reg, fs, plat) ==
    {UnregisterResult(r.res = "ok", Append(calls, "prune"), Append(replies, r.res),
                      r.registry, r.dirs) :
         r \in GitPrune(reg, fs, plat)}

\* the part of unregisterWorktree after the last failed remove, whose error
\* message is given
UnregisterAfterFailure(message, calls, replies, reg, fs, plat) ==
    IF message = "needsForce" THEN {UnregisterResult(FALSE, calls, replies, reg, fs)}
    ELSE IF message = "gone"
    THEN {UnregisterResult(r.res = "ok", Append(calls, "prune"),
                           Append(replies, r.res), r.registry, r.dirs) :
              r \in GitPrune(reg, fs, plat)}
    ELSE {UnregisterResult(FALSE, calls, replies, reg, fs)}

\* an unregisterWorktree that retries with --force after every failed remove
unregisterWorktreeAlwaysRetriesForced(p, force, reg, fs, plat) ==
    UNION {
        IF r1.res = "ok"
        THEN {UnregisterResult(TRUE, <<"remove">>, <<r1.res>>, r1.registry, r1.dirs)}
        ELSE UNION {
                 IF r2.res = "ok"
                 THEN {UnregisterResult(TRUE, <<"remove", "removeForce">>,
                                        <<r1.res, r2.res>>, r2.registry, r2.dirs)}
                 ELSE UnregisterAfterFailure(r2.res, <<"remove", "removeForce">>,
                                             <<r1.res, r2.res>>, reg, fs, plat)
                 : r2 \in GitRemove(p, TRUE, reg, fs, plat)}
        : r1 \in GitRemove(p, FALSE, reg, fs, plat)}

\* unregisterWorktree(mainPath, worktreePath, {force}): every result the backend
\* allows, with the git calls made and the backend's reply to each
unregisterWorktree(p, force, reg, fs, plat) ==
    UNION {
        IF r1.res = "ok"
        THEN {UnregisterResult(TRUE, <<"remove">>, <<r1.res>>, r1.registry, r1.dirs)}
        ELSE IF force
        THEN UNION {
                 IF r2.res = "ok"
                 THEN {UnregisterResult(TRUE, <<"remove", "removeForce">>,
                                        <<r1.res, r2.res>>, r2.registry, r2.dirs)}
                 ELSE UnregisterAfterFailure(r2.res, <<"remove", "removeForce">>,
                                             <<r1.res, r2.res>>, reg, fs, plat)
                 : r2 \in GitRemove(p, TRUE, reg, fs, plat)}
        ELSE UnregisterAfterFailure(r1.res, <<"remove">>, <<r1.res>>, reg, fs, plat)
        : r1 \in GitRemove(p, FALSE, reg, fs, plat)}

----------------------------------------------------------------------------
(* Confirmation *)

\* a confirmation that asks whenever it is not waived, prompts allowed or not
confirmActionAlwaysAsks(o) ==
    IF o.assumeYes \/ o.dryRun THEN "yes" ELSE "prompt"

\* confirmAction: "yes" without asking, "exit" (exitWithMessage) when prompts
\* are disabled, otherwise "prompt" (the answer comes from the user)
confirmAction(o) ==
    IF o.assumeYes \/ o.dryRun THEN "yes"
    ELSE IF ~o.allowPrompt THEN "exit"
    ELSE "prompt"

\* a prepareCwdSwitch that does not test whether the cwd is inside a target
prepareCwdSwitchAnyTarget(targetPaths, cwd, mainPath, plat) ==
    normalizePathKey(cwd, plat) # normalizePathKey(mainPath, plat)

\* prepareCwdSwitch: whether a switch of the process cwd to the main copy is due
prepareCwdSwitch(targetPaths, cwd, mainPath, plat) ==
    LET cwdInsideAnyTarget ==
            \E i \in 1..Len(targetPaths) :
                isPathEqualOrWithin(targetPaths[i], cwd, plat)
    IN  ~(~cwdInsideAnyTarget
          \/ normalizePathKey(cwd, plat) = normalizePathKey(mainPath, plat))

----------------------------------------------------------------------------
(* Initial state *)

\* the directories that exist in every run
BaseDirs(plat) ==
    {RootPath(plat), HomeDir(plat), OuterPath(plat), MainPath(plat),
     GitDirPath(plat), NestedPath(plat), OrphanPath(plat), TwinPath(plat),
     RepoTwinPath(plat)}

\* the directories that may or may not exist when the tool starts
OptionalDirs(plat) == {FeatPath(plat)}

Name(seg) == [lead |-> "", segs |-> <<seg>>]

Rooted(segs) == [lead |-> "/", segs |-> segs]

\* the raw command-line targets of the batch runs; "gone" names a worktree that
\* an earlier run has moved to the trash and unregistered
RawInputs ==
    { Name("feat"), Name("nested"), Name("orphan"), Name("repo"), Name("gone"),
      Rooted(<<"home", "ws", "REPO">>), Rooted(<<"home", "ws">>),
      Rooted(<<"home">>), Rooted(<<>>), Name(".git"), Name("twin"), BlankInput,
      [lead |-> "", segs |-> <<"feat", "..", "orphan">>] }

\* the paths `git worktree list` reports, the main worktree excluded
InitialRegistry(plat) == {Worktrees(plat)[i].path : i \in 1..Len(Worktrees(plat))}

NoRefusal == [targetPath |-> NoPath, registeredPath |-> NoPath]

NewLog ==
    [dirtyConfirm |-> "none",   \* none, notNeeded, waived, pending, approved, declined
     dirtyPrompts |-> 0,        \* "Remove anyway?" prompts shown
     mainConfirm |-> "none",    \* none, pending, approved, declined
     chdirCalls |-> 0,          \* process.chdir calls
     exitMessage |-> "",        \* the message of exitWithMessage
     failedInput |-> BlankInput,
                                \* the input a resolution error message names
     summary |-> [succeeded |-> 0, failed |-> 0, entries |-> 0],
                                \* "Removed <succeeded> of <entries> worktrees."
     refused |-> NoRefusal]     \* the target assertRemovalSafe refused

\* no function is called on its own
NoCall == [input |-> BlankInput, worktrees |-> <<>>, results |-> <<>>]

\* cli.ts: the options removeBatch receives (assumeYes = --yes or --dry-run)
CliOptions ==
    { [dryRun |-> d, assumeYes |-> y \/ d, force |-> f, allowPrompt |-> a] :
        d \in BOOLEAN, y \in BOOLEAN, f \in BOOLEAN, a \in BOOLEAN }

Init ==
    /\ platform \in {"linux", "win32"}
    /\ opts \in CliOptions
    /\ \E optional \in SUBSET OptionalDirs(platform) :
           dirs = BaseDirs(platform) \cup optional
    /\ invocationCwd \in {MainPath(platform), FeatPath(platform)} \cap dirs
    /\ processCwd = invocationCwd
    /\ registry = InitialRegistry(platform)
    /\ pc = "resolve"
    /\ exitState = "running"
    /\ consumed = 0
    /\ resolved = <<>>
    /\ attempts = <<>>
    /\ log = NewLog
    /\ call = NoCall

----------------------------------------------------------------------------
(* BatchCoordinator: removeBatch, phases 1 and 2 *)

\* the function returns (state "ok" or "cancelled") or the process exits
Exit(state) ==
    /\ exitState' = state
    /\ pc' = "done"

\* exitWithMessage: prints the message, process.exit(1)
exitWithMessage(message) ==
    /\ Exit("fatal")
    /\ log' = [log EXCEPT !.exitMessage = message]

\* the exitWithMessage calls of resolveRemovalTarget, whose messages name the
\* input
exitWithResolutionError(error, input) ==
    /\ Exit("fatal")
    /\ log' = [log EXCEPT !.exitMessage = error, !.failedInput = input]

\* the entry resolveBatchTargets pushes for an accepted target
ResolvedEntry(input, r, exists, gitStatusDirty) ==
    [input |-> input,
     targetPath |-> r.targetPath,
     registeredPath |-> r.registeredPath,
     isPathInputTarget |-> r.isPathInputTarget,
     directoryExists |-> exists,
     hasDirtyChanges |-> r.registeredPath # NoPath /\ exists /\ gitStatusDirty,
     status |-> getRemovalStatus(r.registeredPath, r.isPathInputTarget)]

\* a loop body in which --force lets a refused target through
PushResolvedForceOverrides(input, r, verdict, exists, gitStatusDirty) ==
    IF r.error # "" THEN exitWithResolutionError(r.error, input) /\ UNCHANGED resolved
    ELSE IF verdict # "" /\ ~opts.force
    THEN /\ Exit("fatal")
         /\ log' = [log EXCEPT !.exitMessage = verdict,
                               !.refused = [targetPath |-> r.targetPath,
                                            registeredPath |-> r.registeredPath]]
         /\ UNCHANGED resolved
    ELSE /\ resolved' = Append(resolved,
                            ResolvedEntry(input, r, exists, gitStatusDirty))
         /\ UNCHANGED <<pc, exitState, log>>

\* a loop body that reports a failed target and goes on with the next one
PushResolvedSkipsFailures(input, r, verdict, exists, gitStatusDirty) ==
    IF r.error # ""
    THEN /\ log' = [log EXCEPT !.exitMessage = r.error]
         /\ UNCHANGED <<resolved, pc, exitState>>
    ELSE IF verdict # ""
    THEN /\ log' = [log EXCEPT !.exitMessage = verdict,
                               !.refused = [targetPath |-> r.targetPath,
                                            registeredPath |-> r.registeredPath]]
         /\ UNCHANGED <<resolved, pc, exitState>>
    ELSE /\ resolved' = Append(resolved,
                            ResolvedEntry(input, r, exists, gitStatusDirty))
         /\ UNCHANGED <<pc, exitState, log>>

\* the loop body of resolveBatchTargets after resolveRemovalTarget returned r
\* and assertRemovalSafe returned verdict ("" when safe)
PushResolved(input, r, verdict, exists, gitStatusDirty) ==
    IF r.error # "" THEN exitWithResolutionError(r.error, input) /\ UNCHANGED resolved
    ELSE IF verdict # ""
    THEN /\ Exit("fatal")
         /\ log' = [log EXCEPT !.exitMessage = verdict,
                               !.refused = [targetPath |-> r.targetPath,
                                            registeredPath |-> r.registeredPath]]
         /\ UNCHANGED resolved
    ELSE /\ resolved' = Append(resolved,
                            ResolvedEntry(input, r, exists, gitStatusDirty))
         /\ UNCHANGED <<pc, exitState, log>>

GuardResolved(input, r, gitStatusDirty) ==
    PushResolved(input, r,
                 IF r.error # "" THEN ""
                 ELSE assertRemovalSafe(r.targetPath, MainPath(platform),
                                        r.registeredPath, platform),
                 r.error = "" /\ directoryExists(r.targetPath, dirs, platform),
                 gitStatusDirty)

\* one iteration of resolveBatchTargets' loop; gitStatusDirty is what
\* `git status --porcelain` would report for the resolved worktree
resolveBatchTargets(input, gitStatusDirty) ==
    IF input = BlankInput
    THEN UNCHANGED <<resolved, pc, exitState, log>>
    ELSE GuardResolved(input,
                       resolveRemovalTarget(input, invocationCwd, MainPath(platform),
                                            Worktrees(platform), platform, dirs),
                       gitStatusDirty)

ResolveTarget ==
    /\ pc = "resolve"
    /\ consumed < MaxTargets
    /\ \E input \in RawInputs, gitStatusDirty \in BOOLEAN :
           resolveBatchTargets(input, gitStatusDirty)
    /\ consumed' = consumed + 1
    /\ UNCHANGED <<call, platform, opts, invocationCwd, processCwd, dirs, registry,
                   attempts>>

\* the end of the target list; the loop counter is not read after the loop,
\* so it goes back to 0
ResolveDone ==
    /\ pc = "resolve"
    /\ consumed >= 1
    /\ IF Len(resolved) = 0
       THEN exitWithMessage("No valid targets to remove.")
       ELSE pc' = "dirty" /\ UNCHANGED <<exitState, log>>
    /\ consumed' = 0
    /\ UNCHANGED <<call, platform, opts, invocationCwd, processCwd, dirs, registry,
                   resolved, attempts>>

HasDirty(r) == r.hasDirtyChanges

\* promptDisabledMessage of the dirty-check
DirtyPromptDisabled == "Worktrees have uncommitted changes."

\* a dirty-check that --force does not waive
DirtyCheckAsksDespiteForce ==
    /\ pc = "dirty"
    /\ LET dirtyTargets == SelectSeq(resolved, HasDirty) IN
       IF Len(dirtyTargets) = 0
       THEN /\ log' = [log EXCEPT !.dirtyConfirm = "notNeeded"]
            /\ pc' = "confirm" /\ UNCHANGED exitState
       ELSE IF opts.assumeYes \/ opts.dryRun
       THEN /\ log' = [log EXCEPT !.dirtyConfirm = "waived"]
            /\ pc' = "confirm" /\ UNCHANGED exitState
       ELSE IF confirmAction(opts) = "exit"
       THEN exitWithMessage(DirtyPromptDisabled)
       ELSE /\ log' = [log EXCEPT !.dirtyConfirm = "pending",
                                  !.dirtyPrompts = @ + 1]
            /\ pc' = "dirtyPrompt" /\ UNCHANGED exitState
    /\ UNCHANGED <<call, platform, opts, invocationCwd, processCwd, dirs, registry,
                   consumed, resolved, attempts>>

\* Phase 1b: the combined dirty-check
DirtyCheck ==
    /\ pc = "dirty"
    /\ LET dirtyTargets == SelectSeq(resolved, HasDirty) IN
       IF Len(dirtyTargets) = 0
       THEN /\ log' = [log EXCEPT !.dirtyConfirm = "notNeeded"]
            /\ pc' = "confirm" /\ UNCHANGED exitState
       ELSE IF opts.force \/ opts.assumeYes \/ opts.dryRun
       THEN /\ log' = [log EXCEPT !.dirtyConfirm = "waived"]
            /\ pc' = "confirm" /\ UNCHANGED exitState
       ELSE IF confirmAction(opts) = "exit"
       THEN exitWithMessage(DirtyPromptDisabled)
       ELSE /\ log' = [log EXCEPT !.dirtyConfirm = "pending",
                                  !.dirtyPrompts = @ + 1]
            /\ pc' = "dirtyPrompt" /\ UNCHANGED exitState
    /\ UNCHANGED <<call, platform, opts, invocationCwd, processCwd, dirs, registry,
                   consumed, resolved, attempts>>

\* the user's answer to "Remove anyway?"
DirtyAnswer ==
    /\ pc = "dirtyPrompt"
    /\ \E proceed \in BOOLEAN :
           IF proceed
           THEN /\ log' = [log EXCEPT !.dirtyConfirm = "approved"]
                /\ pc' = "confirm" /\ UNCHANGED exitState
           ELSE /\ log' = [log EXCEPT !.dirtyConfirm = "declined"]
                /\ Exit("cancelled")
    /\ UNCHANGED <<call, platform, opts, invocationCwd, processCwd, dirs, registry,
                   consumed, resolved, attempts>>

\* hasDirtyChanges is read by phase 1b alone: the entries that go on to phase 2
\* carry FALSE, so that runs differing only in this dead field coincide
AfterDirtyPhase(rs) ==
    [i \in 1..Len(rs) |-> [rs[i] EXCEPT !.hasDirtyChanges = FALSE]]

\* a confirmation phase that runs performCwdSwitch before it asks
MainConfirmSwitchesFirst ==
    /\ pc = "confirm"
    /\ LET answer == confirmAction(opts)
           mustSwitch == prepareCwdSwitch(
                             [i \in 1..Len(resolved) |-> resolved[i].targetPath],
                             invocationCwd, MainPath(platform), platform)
       IN
       IF answer = "yes"
       THEN /\ log' = [log EXCEPT !.mainConfirm = "approved"]
            /\ resolved' = AfterDirtyPhase(resolved)
            /\ pc' = "switch" /\ UNCHANGED <<exitState, processCwd>>
       ELSE IF answer = "exit"
       THEN exitWithMessage("Confirmation required.")
            /\ UNCHANGED <<resolved, processCwd>>
       ELSE /\ log' = [log EXCEPT !.mainConfirm = "pending",
                                  !.chdirCalls = IF mustSwitch THEN @ + 1 ELSE @]
            /\ processCwd' = IF mustSwitch THEN MainPath(platform) ELSE processCwd
            /\ resolved' = AfterDirtyPhase(resolved)
            /\ pc' = "mainPrompt" /\ UNCHANGED exitState
    /\ UNCHANGED <<call, platform, opts, invocationCwd, dirs, registry,
                   consumed, attempts>>

\* Phase 2: the combined confirmation
MainConfirm ==
    /\ pc = "confirm"
    /\ LET answer == confirmAction(opts) IN
       IF answer = "yes"
       THEN /\ log' = [log EXCEPT !.mainConfirm = "approved"]
            /\ resolved' = AfterDirtyPhase(resolved)
            /\ pc' = "switch" /\ UNCHANGED exitState
       ELSE IF answer = "exit"
       THEN exitWithMessage("Confirmation required.") /\ UNCHANGED resolved
       ELSE /\ log' = [log EXCEPT !.mainConfirm = "pending"]
            /\ resolved' = AfterDirtyPhase(resolved)
            /\ pc' = "mainPrompt" /\ UNCHANGED exitState
    /\ UNCHANGED <<call, platform, opts, invocationCwd, processCwd, dirs, registry,
                   consumed, attempts>>

\* an answer handler that goes on after a decline
MainAnswerIgnoresDecline ==
    /\ pc = "mainPrompt"
    /\ \E confirmed \in BOOLEAN :
           /\ log' = [log EXCEPT !.mainConfirm =
                          IF confirmed THEN "approved" ELSE "declined"]
           /\ pc' = "switch" /\ UNCHANGED exitState
    /\ UNCHANGED <<call, platform, opts, invocationCwd, processCwd, dirs, registry,
                   consumed, resolved, attempts>>

\* the user's answer to the combined confirmation
MainAnswer ==
    /\ pc = "mainPrompt"
    /\ \E confirmed \in BOOLEAN :
           IF confirmed
           THEN /\ log' = [log EXCEPT !.mainConfirm = "approved"]
                /\ pc' = "switch" /\ UNCHANGED exitState
           ELSE /\ log' = [log EXCEPT !.mainConfirm = "declined"]
                /\ Exit("cancelled")
    /\ UNCHANGED <<call, platform, opts, invocationCwd, processCwd, dirs, registry,
                   consumed, resolved, attempts>>

----------------------------------------------------------------------------
(* RemovalExecutor: performWorktreeRemoval, one call per resolved target *)

NewAttempt ==
    [pc |-> "queued",               \* queued, checkExists, trashing, prompting, recheck, settled
     directoryExistsBefore |-> FALSE,
     movedToTrash |-> FALSE,
     forceUnregister |-> FALSE,
     trash |-> "none",              \* trashDirectory: none, pending, ok, failed
     gitCalls |-> <<>>,             \* the git calls unregisterWorktree made
     unregistered |-> "none",       \* unregisterWorktree: none, ok, failed
     escalation |-> "none",         \* the trash-failure prompt: none, pending, approved, declined
     outcome |-> "none"]            \* none, ok, cancelled, failed

InFlight(atts) ==
    Cardinality({i \in 1..Len(atts) : atts[i].pc \notin {"queued", "settled"}})

AllSettled(atts) == \A i \in 1..Len(atts) : atts[i].pc = "settled"

\* a pool without a limit: every queued call starts at once
AdmitAll(atts, i) ==
    [k \in 1..Len(atts) |->
        IF k >= i /\ atts[k].pc = "queued"
        THEN [atts[k] EXCEPT !.pc = "checkExists"]
        ELSE atts[k]]

RECURSIVE Admit(_, _)
\* p-limit: start queued calls, in order, while fewer than PoolLimit are running;
\* a started call runs up to its first await (the existence check)
Admit(atts, i) ==
    IF i > Len(atts) THEN atts
    ELSE IF atts[i].pc = "queued" /\ InFlight(atts) < PoolLimit
    THEN Admit([atts EXCEPT ![i].pc = "checkExists"], i + 1)
    ELSE Admit(atts, i + 1)

\* a fan-out that never suppresses the trash-failure prompt
skipTrashFailurePromptNever == FALSE

\* remove-batch.ts:320
skipTrashFailurePrompt == Len(resolved) # 1

\* the status performWorktreeRemoval returns at each of its return sites
RemovalResult(site) ==
    CASE site = "declined" -> "cancelled"
      [] site = "suppressed" -> "failed"
      [] site = "trashFailedUnregistered" -> "failed"
      [] OTHER -> "ok"

\* a return after which the batch stops waiting as soon as one call has failed
FinishFailFast(i, a, site) ==
    LET atts == Admit([attempts EXCEPT ![i] =
                          [a EXCEPT !.pc = "settled",
                                    !.outcome = RemovalResult(site)]], 1)
    IN  /\ attempts' = atts
        /\ pc' = IF AllSettled(atts) \/ RemovalResult(site) # "ok"
                 THEN "report" ELSE pc
        /\ UNCHANGED <<exitState, log>>

\* a return that reports failed when unregisterWorktree had failed
FinishFailsOnUnregisterFailure(i, a, site) ==
    LET atts == Admit([attempts EXCEPT ![i] =
                          [a EXCEPT !.pc = "settled",
                                    !.outcome = IF a.unregistered = "failed"
                                                THEN "failed"
                                                ELSE RemovalResult(site)]], 1)
    IN  /\ attempts' = atts
        /\ pc' = IF AllSettled(atts) THEN "report" ELSE pc
        /\ UNCHANGED <<exitState, log>>

\* a return after which the pool starts no queued call
FinishWithoutAdmit(i, a, site) ==
    LET atts == [attempts EXCEPT ![i] =
                    [a EXCEPT !.pc = "settled",
                              !.outcome = RemovalResult(site)]]
    IN  /\ attempts' = atts
        /\ pc' = IF AllSettled(atts) THEN "report" ELSE pc
        /\ UNCHANGED <<exitState, log>>

\* the call of target i returns: its promise settles and the pool starts the next
Finish(i, a, site) ==
    LET atts == Admit([attempts EXCEPT ![i] =
                          [a EXCEPT !.pc = "settled",
                                    !.outcome = RemovalResult(site)]], 1)
    IN  /\ attempts' = atts
        /\ pc' = IF AllSettled(atts) THEN "report" ELSE pc
        /\ UNCHANGED <<exitState, log>>

Await(i, a, at) ==
    /\ attempts' = [attempts EXCEPT ![i] = [a EXCEPT !.pc = at]]
    /\ UNCHANGED <<pc, exitState, log>>

\* an unregister section without the dry-run branch
UnregisterSectionIgnoresDryRun(i, a, fs) ==
    LET r == resolved[i] IN
    IF r.registeredPath # NoPath
    THEN \E u \in unregisterWorktree(r.registeredPath, a.forceUnregister,
                                     registry, fs, platform) :
            LET b == [a EXCEPT !.gitCalls = u.calls,
                               !.unregistered = IF u.ok THEN "ok" ELSE "failed"]
            IN  /\ registry' = u.registry
                /\ dirs' = u.dirs
                /\ IF a.directoryExistsBefore /\ ~a.movedToTrash
                   THEN Await(i, b, "recheck")
                   ELSE Finish(i, b, "done")
    ELSE /\ registry' = registry
         /\ dirs' = fs
         /\ Finish(i, a, "done")

\* an unregister section that does not look at registeredPath
UnregisterSectionAnyTarget(i, a, fs) ==
    LET r == resolved[i] IN
    IF ~opts.dryRun
    THEN \E u \in unregisterWorktree(r.targetPath, a.forceUnregister,
                                     registry, fs, platform) :
            LET b == [a EXCEPT !.gitCalls = u.calls,
                               !.unregistered = IF u.ok THEN "ok" ELSE "failed"]
            IN  /\ registry' = u.registry
                /\ dirs' = u.dirs
                /\ IF a.directoryExistsBefore /\ ~a.movedToTrash
                   THEN Await(i, b, "recheck")
                   ELSE Finish(i, b, "done")
    ELSE /\ registry' = registry
         /\ dirs' = fs
         /\ Finish(i, a, "done")

\* performWorktreeRemoval from `if (parameters.registeredPath)` on, with the
\* filesystem fs left by the step before
UnregisterSection(i, a, fs) ==
    LET r == resolved[i] IN
    IF r.registeredPath # NoPath /\ ~opts.dryRun
    THEN \E u \in unregisterWorktree(r.registeredPath, a.forceUnregister,
                                     registry, fs, platform) :
            LET b == [a EXCEPT !.gitCalls = u.calls,
                               !.unregistered = IF u.ok THEN "ok" ELSE "failed"]
            IN  /\ registry' = u.registry
                /\ dirs' = u.dirs
                /\ IF a.directoryExistsBefore /\ ~a.movedToTrash
                   THEN Await(i, b, "recheck")
                   ELSE Finish(i, b, "done")
    ELSE /\ registry' = registry
         /\ dirs' = fs
         /\ Finish(i, a, "done")

\* a call that unregisters an existing directory without moving it to the trash
ExistenceCheckedUnregistersFirst(i) ==
    /\ pc = "execute"
    /\ attempts[i].pc = "checkExists"
    /\ LET exists == directoryExists(resolved[i].targetPath, dirs, platform)
           a == [attempts[i] EXCEPT !.directoryExistsBefore = exists,
                                    !.forceUnregister = opts.force]
       IN  UnregisterSection(i, a, dirs)
    /\ UNCHANGED <<call, platform, opts, invocationCwd, processCwd, consumed, resolved>>

\* a call that starts with forceUnregister set, whatever the --force option
ExistenceCheckedAlwaysForces(i) ==
    /\ pc = "execute"
    /\ attempts[i].pc = "checkExists"
    /\ LET exists == directoryExists(resolved[i].targetPath, dirs, platform)
           a == [attempts[i] EXCEPT !.directoryExistsBefore = exists,
                                    !.forceUnregister = TRUE]
       IN  IF exists /\ ~opts.dryRun
           THEN /\ Await(i, [a EXCEPT !.trash = "pending"], "trashing")
                /\ UNCHANGED <<registry, dirs>>
           ELSE UnregisterSection(i, a, dirs)
    /\ UNCHANGED <<call, platform, opts, invocationCwd, processCwd, consumed, resolved>>

\* the existence check at the start of the call returns
ExistenceChecked(i) ==
    /\ pc = "execute"
    /\ attempts[i].pc = "checkExists"
    /\ LET exists == directoryExists(resolved[i].targetPath, dirs, platform)
           a == [attempts[i] EXCEPT !.directoryExistsBefore = exists,
                                    !.forceUnregister = opts.force]
       IN  IF exists /\ ~opts.dryRun
           THEN /\ Await(i, [a EXCEPT !.trash = "pending"], "trashing")
                /\ UNCHANGED <<registry, dirs>>
           ELSE UnregisterSection(i, a, dirs)
    /\ UNCHANGED <<call, platform, opts, invocationCwd, processCwd, consumed, resolved>>

\* a trash-failure handler in which --force goes on to the unregister section
\* whether or not the target is registered
TrashSettledForceProceedsAlways(i) ==
    /\ pc = "execute"
    /\ attempts[i].pc = "trashing"
    /\ \E trashOk \in BOOLEAN :
        LET r == resolved[i]
            a == attempts[i]
        IN  IF trashOk
            THEN UnregisterSection(i, [a EXCEPT !.trash = "ok", !.movedToTrash = TRUE],
                                   RemoveTree(dirs, r.targetPath, platform))
            ELSE LET f == [a EXCEPT !.trash = "failed"] IN
                 IF opts.force
                 THEN UnregisterSection(i, [f EXCEPT !.forceUnregister = TRUE], dirs)
                 ELSE IF r.registeredPath = NoPath \/ skipTrashFailurePrompt
                 THEN Finish(i, f, IF r.registeredPath = NoPath
                                   THEN "trashFailedUnregistered" ELSE "suppressed")
                      /\ UNCHANGED <<registry, dirs>>
                 ELSE IF confirmAction(opts) = "yes"
                 THEN UnregisterSection(i, [f EXCEPT !.forceUnregister = TRUE], dirs)
                 ELSE IF confirmAction(opts) = "exit"
                 THEN /\ exitWithMessage("Trash move failed.")
                      /\ UNCHANGED <<attempts, registry, dirs>>
                 ELSE /\ Await(i, [f EXCEPT !.escalation = "pending"], "prompting")
                      /\ UNCHANGED <<registry, dirs>>
    /\ UNCHANGED <<call, platform, opts, invocationCwd, processCwd, consumed, resolved>>

\* a trash-failure handler in which --yes approves the escalation even when the
\* prompt is suppressed
TrashSettledYesBeforeSuppression(i) ==
    /\ pc = "execute"
    /\ attempts[i].pc = "trashing"
    /\ \E trashOk \in BOOLEAN :
        LET r == resolved[i]
            a == attempts[i]
        IN  IF trashOk
            THEN UnregisterSection(i, [a EXCEPT !.trash = "ok", !.movedToTrash = TRUE],
                                   RemoveTree(dirs, r.targetPath, platform))
            ELSE LET f == [a EXCEPT !.trash = "failed"] IN
                 IF r.registeredPath # NoPath
                 THEN IF opts.force \/ confirmAction(opts) = "yes"
                      THEN UnregisterSection(i, [f EXCEPT !.forceUnregister = TRUE], dirs)
                      ELSE IF skipTrashFailurePrompt
                      THEN Finish(i, f, "suppressed")
                           /\ UNCHANGED <<registry, dirs>>
                      ELSE IF confirmAction(opts) = "exit"
                      THEN /\ exitWithMessage("Trash move failed.")
                           /\ UNCHANGED <<attempts, registry, dirs>>
                      ELSE /\ Await(i, [f EXCEPT !.escalation = "pending"], "prompting")
                           /\ UNCHANGED <<registry, dirs>>
                 ELSE Finish(i, f, "trashFailedUnregistered")
                      /\ UNCHANGED <<registry, dirs>>
    /\ UNCHANGED <<call, platform, opts, invocationCwd, processCwd, consumed, resolved>>

\* trashDirectory returns; the skipTrashFailurePrompt branch is the one section
\* 4.4 of the specification describes: failed, without a prompt
TrashSettled(i) ==
    /\ pc = "execute"
    /\ attempts[i].pc = "trashing"
    /\ \E trashOk \in BOOLEAN :
        LET r == resolved[i]
            a == attempts[i]
        IN  IF trashOk
            THEN UnregisterSection(i, [a EXCEPT !.trash = "ok", !.movedToTrash = TRUE],
                                   RemoveTree(dirs, r.targetPath, platform))
            ELSE LET f == [a EXCEPT !.trash = "failed"] IN
                 IF r.registeredPath # NoPath
                 THEN IF opts.force
                      THEN UnregisterSection(i, [f EXCEPT !.forceUnregister = TRUE], dirs)
                      ELSE IF skipTrashFailurePrompt
                      THEN Finish(i, f, "suppressed")
                           /\ UNCHANGED <<registry, dirs>>
                      ELSE IF confirmAction(opts) = "yes"
                      THEN UnregisterSection(i, [f EXCEPT !.forceUnregister = TRUE], dirs)
                      ELSE IF confirmAction(opts) = "exit"
                      THEN /\ exitWithMessage("Trash move failed.")
                           /\ UNCHANGED <<attempts, registry, dirs>>
                      ELSE /\ Await(i, [f EXCEPT !.escalation = "pending"], "prompting")
                           /\ UNCHANGED <<registry, dirs>>
                 ELSE Finish(i, f, "trashFailedUnregistered")
                      /\ UNCHANGED <<registry, dirs>>
    /\ UNCHANGED <<call, platform, opts, invocationCwd, processCwd, consumed, resolved>>

\* an escalation handler that unregisters whatever the answer
EscalationAnsweredIgnoresDecline(i) ==
    /\ pc = "execute"
    /\ attempts[i].pc = "prompting"
    /\ \E proceed \in BOOLEAN :
           UnregisterSection(i, [attempts[i] EXCEPT
                                    !.forceUnregister = TRUE,
                                    !.escalation = IF proceed THEN "approved"
                                                   ELSE "declined"], dirs)
    /\ UNCHANGED <<call, platform, opts, invocationCwd, processCwd, consumed, resolved>>

\* the user's answer to "Proceed with unregistering anyway?"
EscalationAnswered(i) ==
    /\ pc = "execute"
    /\ attempts[i].pc = "prompting"
    /\ \E proceed \in BOOLEAN :
           IF proceed
           THEN UnregisterSection(i, [attempts[i] EXCEPT !.forceUnregister = TRUE,
                                                         !.escalation = "approved"], dirs)
           ELSE Finish(i, [attempts[i] EXCEPT !.escalation = "declined"], "declined")
                /\ UNCHANGED <<registry, dirs>>
    /\ UNCHANGED <<call, platform, opts, invocationCwd, processCwd, consumed, resolved>>

\* the existence check after unregistering returns
ExistenceRechecked(i) ==
    /\ pc = "execute"
    /\ attempts[i].pc = "recheck"
    /\ Finish(i, attempts[i], "done")
    /\ UNCHANGED <<call, platform, opts, invocationCwd, processCwd, dirs, registry,
                   consumed, resolved>>

----------------------------------------------------------------------------
(* BatchCoordinator: removeBatch after the confirmation *)

TargetPaths == [i \in 1..Len(resolved) |-> resolved[i].targetPath]

\* a fan-out that starts the removals without performCwdSwitch
SwitchAndExecuteNoChdir ==
    /\ pc = "switch"
    /\ attempts' = Admit([i \in 1..Len(resolved) |-> NewAttempt], 1)
    /\ pc' = "execute"
    /\ UNCHANGED <<call, platform, opts, invocationCwd, processCwd, dirs, registry,
                   consumed, resolved, exitState, log>>

\* performCwdSwitch, then the fan-out of phase 3
SwitchAndExecute ==
    /\ pc = "switch"
    /\ LET mustSwitch == prepareCwdSwitch(TargetPaths, invocationCwd,
                                          MainPath(platform), platform)
           started == Admit([i \in 1..Len(resolved) |-> NewAttempt], 1)
       IN  IF mustSwitch /\ ~opts.dryRun
           THEN \E chdirOk \in BOOLEAN :
                   IF chdirOk
                   THEN /\ log' = [log EXCEPT !.chdirCalls = @ + 1]
                        /\ processCwd' = MainPath(platform)
                        /\ attempts' = started
                        /\ pc' = "execute" /\ UNCHANGED exitState
                   ELSE /\ log' = [log EXCEPT !.chdirCalls = @ + 1,
                                              !.exitMessage = "Failed to switch directory."]
                        /\ Exit("fatal")
                        /\ UNCHANGED <<processCwd, attempts>>
           ELSE /\ attempts' = started
                /\ pc' = "execute"
                /\ UNCHANGED <<log, processCwd, exitState>>
    /\ UNCHANGED <<call, platform, opts, invocationCwd, dirs, registry, consumed,
                   resolved>>

\* a count of the settled calls as succeeded, whatever their outcome
IsSettled(a) == a.pc = "settled"

\* report-batch-results.ts:19
IsOk(a) == a.outcome = "ok"

NotOk(a) == a.outcome # "ok"

\* reportBatchResults: the summary line, then the exit status
reportBatchResults(entries) ==
    LET succeeded == SelectSeq(entries, IsOk)
        failed == SelectSeq(entries, NotOk)
        summary == [succeeded |-> Len(succeeded), failed |-> Len(failed),
                    entries |-> Len(entries)]
    IN  IF Len(failed) > 0
        THEN /\ Exit("fatal")
             /\ log' = [log EXCEPT !.exitMessage = "Some removals failed.",
                                   !.summary = summary]
        ELSE /\ Exit("ok")
             /\ log' = [log EXCEPT !.summary = summary]

\* a phase 4 that sends a single target through reportBatchResults as well
ReportSingleAsBatch ==
    /\ pc = "report"
    /\ reportBatchResults(attempts)
    /\ UNCHANGED <<call, platform, opts, invocationCwd, processCwd, dirs, registry,
                   consumed, resolved, attempts>>

\* a phase 4 that never exits with a failure
ReportNeverFails ==
    /\ pc = "report"
    /\ Exit("ok")
    /\ UNCHANGED <<call, platform, opts, invocationCwd, processCwd, dirs, registry,
                   consumed, resolved, attempts, log>>

\* Phase 4: the exit status
Report ==
    /\ pc = "report"
    /\ IF Len(resolved) = 1
       THEN IF attempts[1].outcome = "failed"
            THEN exitWithMessage("Removal failed.")
            ELSE IF attempts[1].outcome = "cancelled"
            THEN Exit("cancelled") /\ UNCHANGED log
            ELSE Exit("ok") /\ UNCHANGED log
       ELSE reportBatchResults(attempts)
    /\ UNCHANGED <<call, platform, opts, invocationCwd, processCwd, dirs, registry,
                   consumed, resolved, attempts>>

Next ==
    \/ ResolveTarget
    \/ ResolveDone
    \/ DirtyCheck
    \/ DirtyAnswer
    \/ MainConfirm
    \/ MainAnswer
    \/ SwitchAndExecute
    \/ \E i \in 1..Len(attempts) : ExistenceChecked(i)
    \/ \E i \in 1..Len(attempts) : TrashSettled(i)
    \/ \E i \in 1..Len(attempts) : EscalationAnswered(i)
    \/ \E i \in 1..Len(attempts) : ExistenceRechecked(i)
    \/ Report

Spec == Init /\ [][Next]_vars

----------------------------------------------------------------------------
(* Batches larger than the pool: removeBatch from the approved confirmation on *)

\* the raw targets of a large batch, repeated in this order
PoolInputs == <<Name("feat"), Name("nested"), Name("orphan")>>

PoolOptions ==
    { o \in CliOptions : o.assumeYes /\ ~o.dryRun /\ ~o.allowPrompt }

\* what resolveBatchTargets pushes for the k-th target of the large batch
PoolEntry(k, plat, fs) ==
    LET input == PoolInputs[((k - 1) % Len(PoolInputs)) + 1]
        r == resolveRemovalTarget(input, MainPath(plat), MainPath(plat),
                                  Worktrees(plat), plat, fs)
    IN  ResolvedEntry(input, r, directoryExists(r.targetPath, fs, plat), FALSE)

\* the state of removeBatch for PoolTargets clean targets under --yes, once
\* phases 1 and 2 are over
InitPool ==
    /\ platform = "linux"
    /\ opts \in PoolOptions
    /\ dirs = BaseDirs(platform) \cup OptionalDirs(platform)
    /\ invocationCwd = MainPath(platform)
    /\ processCwd = invocationCwd
    /\ registry = InitialRegistry(platform)
    /\ pc = "switch"
    /\ exitState = "running"
    /\ consumed = 0
    /\ resolved = [k \in 1..PoolTargets |-> PoolEntry(k, platform, dirs)]
    /\ attempts = <<>>
    /\ log = [NewLog EXCEPT !.dirtyConfirm = "notNeeded",
                            !.mainConfirm = "approved"]
    /\ call = NoCall

NextPool ==
    \/ SwitchAndExecute
    \/ \E i \in 1..Len(attempts) : ExistenceChecked(i)
    \/ \E i \in 1..Len(attempts) : TrashSettled(i)
    \/ \E i \in 1..Len(attempts) : ExistenceRechecked(i)
    \/ Report

SpecPool == InitPool /\ [][NextPool]_vars

\* every collaborator call returns and the event loop runs every continuation
\* that is ready: a step of the batch that can be taken is eventually taken
LiveSpecPool == SpecPool /\ WF_vars(NextPool)

----------------------------------------------------------------------------
(* resolveWorktreeTarget on its own: one input and one registry, resolved from
   several working directories *)

XUnderHome(plat) == AbsPath(plat, <<"home", "x">>)
XUnderTmp(plat) == AbsPath(plat, <<"tmp", "x">>)
XSibling(plat) == AbsPath(plat, <<"home", "ws", "x">>)
FeatSibling(plat) == AbsPath(plat, <<"home", "ws", "feat">>)
HiddenConventional(plat) == AbsPath(plat, <<"home", "ws", "repo-.hidden">>)

Detached(p) == [path |-> p, branch |-> NoBranch, isDetached |-> TRUE]

OnBranch(p, branch) == [path |-> p, branch |-> branch, isDetached |-> FALSE]

\* the lists of registered entries (main worktree excluded) the resolver is
\* called with
ResolveRegistries(plat) ==
    { <<>>,
      Worktrees(plat),
      <<Detached(XUnderHome(plat)), Detached(XUnderTmp(plat))>>,
      <<Detached(XSibling(plat)), Detached(XUnderTmp(plat))>>,
      <<OnBranch(XUnderHome(plat), <<"x">>), Detached(XUnderTmp(plat))>>,
      <<OnBranch(FeatPath(plat), <<"feat">>),
        OnBranch(FeatSibling(plat), <<"other">>)>>,
      <<Detached(HiddenConventional(plat)), Detached(XUnderTmp(plat))>> }

ResolveCwds(plat) == {MainPath(plat), OuterPath(plat), HomeDir(plat)}

\* the raw inputs the resolver is called with: names, names with separators,
\* remote-qualified names, names with "..", and relative, home-relative and
\* absolute paths
ResolveInputs ==
    { Name("feat"), Name("Feat"), Name("x"), Name("gone"),
      [lead |-> "", segs |-> <<"origin", "feat">>],
      [lead |-> "", segs |-> <<"refs", "heads", "x">>],
      [lead |-> "", segs |-> <<"team", "gone">>],
      [lead |-> "", segs |-> <<"origin", "">>],
      [lead |-> "", segs |-> <<"feat", "..", "x">>],
      [lead |-> "", segs |-> <<"origin", "..">>],
      [lead |-> "", segs |-> <<".", "x">>],
      [lead |-> "", segs |-> <<"..", "repo-feat">>],
      [lead |-> "~", segs |-> <<"x">>],
      Name(".hidden"),
      Rooted(<<"home", "ws", "repo-feat">>),
      Rooted(<<"tmp", "gone">>) }

InitResolve ==
    /\ platform \in {"linux", "win32"}
    /\ opts \in {o \in CliOptions : o.dryRun /\ ~o.force /\ ~o.allowPrompt}
    /\ invocationCwd = MainPath(platform)
    /\ processCwd = invocationCwd
    /\ dirs = BaseDirs(platform)
    /\ registry = InitialRegistry(platform)
    /\ pc = "resolver"
    /\ exitState = "running"
    /\ consumed = 0
    /\ resolved = <<>>
    /\ attempts = <<>>
    /\ log = NewLog
    /\ \E input \in ResolveInputs, worktrees \in ResolveRegistries(platform) :
           call = [input |-> input, worktrees |-> worktrees, results |-> <<>>]

\* one call of resolveWorktreeTarget from the working directory cwd
CallResolver ==
    /\ pc = "resolver"
    /\ Len(call.results) < MaxCalls
    /\ \E cwd \in ResolveCwds(platform) :
           call' = [call EXCEPT !.results =
                       Append(@, [cwd |-> cwd,
                                  result |-> resolveWorktreeTarget(
                                                 call.input, cwd, MainPath(platform),
                                                 call.worktrees, platform)])]
    /\ UNCHANGED <<platform, opts, invocationCwd, processCwd, dirs, registry, pc,
                   exitState, consumed, resolved, attempts, log>>

NextResolve == CallResolver

SpecResolve == InitResolve /\ [][NextResolve]_vars

----------------------------------------------------------------------------
(* parseWorktreeListPorcelain on its own: the loop over the lines of the output *)

\* `current` before the first "worktree " line
NoEntry == [path |-> NoPath, head |-> "", branch |-> NoBranch, isDetached |-> FALSE]

\* the lines of the output: "worktree <path>", "HEAD <sha>" (the sha may be
\* blank), "branch <ref>" (the ref may be blank), "detached", and any other
\* line (blank, "bare", "locked")
OutputLines ==
    { [kind |-> "worktree", path |-> MainPath("linux"), value |-> <<>>],
      [kind |-> "worktree", path |-> FeatPath("linux"), value |-> <<>>],
      [kind |-> "HEAD", path |-> NoPath, value |-> <<"1111">>],
      [kind |-> "HEAD", path |-> NoPath, value |-> <<>>],
      [kind |-> "branch", path |-> NoPath, value |-> <<"refs", "heads", "feat">>],
      [kind |-> "branch", path |-> NoPath, value |-> <<>>],
      [kind |-> "detached", path |-> NoPath, value |-> <<>>],
      [kind |-> "other", path |-> NoPath, value |-> <<>>] }

\* the body of the loop for one line, on the parser state c
ParseStep(c, line) ==
    IF line.kind = "worktree"
    THEN [c EXCEPT !.worktrees = IF c.current # NoEntry
                                 THEN Append(c.worktrees, c.current)
                                 ELSE c.worktrees,
                   !.current = [NoEntry EXCEPT !.path = line.path]]
    ELSE IF c.current = NoEntry THEN c
    ELSE IF line.kind = "HEAD"
    THEN [c EXCEPT !.current.head = IF line.value = <<>> THEN "" ELSE line.value[1]]
    ELSE IF line.kind = "branch"
    THEN [c EXCEPT !.current.branch = IF line.value = <<>> THEN NoBranch
                                      ELSE normalizeBranchName(line.value)]
    ELSE IF line.kind = "detached"
    THEN [c EXCEPT !.current.isDetached = TRUE, !.current.branch = NoBranch]
    ELSE c

InitParse ==
    /\ platform = "linux"
    /\ opts \in {o \in CliOptions : o.dryRun /\ ~o.force /\ ~o.allowPrompt}
    /\ invocationCwd = MainPath(platform)
    /\ processCwd = invocationCwd
    /\ dirs = BaseDirs(platform)
    /\ registry = InitialRegistry(platform)
    /\ pc = "parser"
    /\ exitState = "running"
    /\ consumed = 0
    /\ resolved = <<>>
    /\ attempts = <<>>
    /\ log = NewLog
    /\ call = [lines |-> 0, current |-> NoEntry, worktrees |-> <<>>,
               returned |-> FALSE]

\* one iteration of the loop over the lines
ParseLine ==
    /\ pc = "parser"
    /\ ~call.returned
    /\ call.lines < MaxLines
    /\ \E line \in OutputLines :
           call' = [ParseStep(call, line) EXCEPT !.lines = call.lines + 1]
    /\ UNCHANGED <<platform, opts, invocationCwd, processCwd, dirs, registry, pc,
                   exitState, consumed, resolved, attempts, log>>

\* the end of the output: the last block is pushed and the list is returned
ParseEnd ==
    /\ pc = "parser"
    /\ ~call.returned
    /\ call' = [call EXCEPT !.worktrees = IF call.current # NoEntry
                                          THEN Append(call.worktrees, call.current)
                                          ELSE call.worktrees,
                            !.current = NoEntry,
                            !.returned = TRUE]
    /\ UNCHANGED <<platform, opts, invocationCwd, processCwd, dirs, registry, pc,
                   exitState, consumed, resolved, attempts, log>>

NextParse == ParseLine \/ ParseEnd

SpecParse == InitParse /\ [][NextParse]_vars

----------------------------------------------------------------------------
(* unregisterWorktree on its own: calls on registered paths, one after another *)

InitUnregister ==
    /\ platform \in {"linux", "win32"}
    /\ opts \in {o \in CliOptions : ~o.dryRun /\ o.assumeYes /\ ~o.force /\ ~o.allowPrompt}
    /\ \E optional \in SUBSET OptionalDirs(platform) :
           dirs = BaseDirs(platform) \cup optional
    /\ invocationCwd = MainPath(platform)
    /\ processCwd = invocationCwd
    /\ registry = InitialRegistry(platform)
    /\ pc = "unregister"
    /\ exitState = "running"
    /\ consumed = 0
    /\ resolved = <<>>
    /\ attempts = <<>>
    /\ log = NewLog
    /\ call = [results |-> <<>>]

\* one call of unregisterWorktree for a path of the worktree list, with the
\* effect git has on the registrations and the directories
CallUnregister ==
    /\ pc = "unregister"
    /\ Len(call.results) < MaxCalls
    /\ \E p \in InitialRegistry(platform), force \in BOOLEAN :
           \E u \in unregisterWorktree(p, force, registry, dirs, platform) :
               /\ call' = [call EXCEPT !.results =
                               Append(@, [worktreePath |-> p, force |-> force,
                                          ok |-> u.ok, calls |-> u.calls,
                                          replies |-> u.replies])]
               /\ registry' = u.registry
               /\ dirs' = u.dirs
    /\ UNCHANGED <<platform, opts, invocationCwd, processCwd, pc, exitState,
                   consumed, resolved, attempts, log>>

NextUnregister == CallUnregister

SpecUnregister == InitUnregister /\ [][NextUnregister]_vars

----------------------------------------------------------------------------
(* Observations the properties share *)

TrashIssued(a) == a.trash # "none"

UnregisterIssued(a) == a.gitCalls # <<>>

\* a mutating collaborator call has been made: chdir, trash or git
Mutated ==
    \/ log.chdirCalls > 0
    \/ \E i \in 1..Len(attempts) :
           TrashIssued(attempts[i]) \/ UnregisterIssued(attempts[i])

\* nothing has been called and the world is as the tool found it
Untouched ==
    /\ ~Mutated
    /\ processCwd = invocationCwd
    /\ registry = InitialRegistry(platform)
    /\ BaseDirs(platform) \subseteq dirs

Aborted == exitState = "fatal" /\ pc = "done"

Platforms == {"linux", "win32"}

\* every path a target can resolve to in the modelled repository
KnownPaths(plat) ==
    BaseDirs(plat) \cup OptionalDirs(plat)
        \cup {AbsPath(plat, <<"home", "ws", "REPO">>), AbsPath(plat, <<>>)}

\* how each known path lies to the main worktree, tabulated once
Lies ==
    [plat \in Platforms |->
        [t \in KnownPaths(plat) |->
            [isMain |-> normalizePathKey(t, plat)
                            = normalizePathKey(MainPath(plat), plat),
             containsMain |-> isPathStrictlyWithin(t, MainPath(plat), plat),
             insideMain |-> isPathStrictlyWithin(MainPath(plat), t, plat)]]]

\* assertRemovalSafe for each known path, unregistered (FALSE) and registered
\* (TRUE), tabulated once
Verdict ==
    [plat \in Platforms |->
        [t \in KnownPaths(plat) |->
            [registered \in BOOLEAN |->
                assertRemovalSafe(t, MainPath(plat),
                                  IF registered THEN t ELSE NoPath, plat)]]]

\* whether each directory a run can start in is a known path or lies inside
\* it, and whether it is the main worktree, tabulated once
CwdLies ==
    [plat \in Platforms |->
        [c \in {MainPath(plat), FeatPath(plat)} |->
            [inside |-> {t \in KnownPaths(plat) : isPathEqualOrWithin(t, c, plat)},
             isMain |-> normalizePathKey(c, plat)
                            = normalizePathKey(MainPath(plat), plat)]]]

\* the invocation cwd is a resolved target or inside one, and is not the main
\* worktree
SwitchDue ==
    /\ \E i \in 1..Len(resolved) :
           resolved[i].targetPath \in CwdLies[platform][invocationCwd].inside
    /\ ~CwdLies[platform][invocationCwd].isMain

\* target i is still on disk or still registered
NotFullyRemoved(i) ==
    \/ directoryExists(resolved[i].targetPath, dirs, platform)
    \/ resolved[i].registeredPath \in registry

\* the run went through the execution phase and has ended
Executed == pc = "done" /\ attempts # <<>> /\ AllSettled(attempts)

\* the confirmation prompts that wait for an answer on stdin
PendingPrompts ==
    (IF pc = "dirtyPrompt" THEN 1 ELSE 0)
        + (IF pc = "mainPrompt" THEN 1 ELSE 0)
        + Cardinality({i \in 1..Len(attempts) : attempts[i].pc = "prompting"})

NoFlags == ~(opts.force \/ opts.assumeYes \/ opts.dryRun)

DirtyTargets == SelectSeq(resolved, HasDirty)

DirtyPhaseDone == log.dirtyConfirm \in {"notNeeded", "waived", "approved"}

GuardRefusals == {MainRefusal, ContainsRefusal, InsideRefusal}

ResolutionFailures == {"ambiguous", "notFound", "multiple", "root"} \cup GuardRefusals

----------------------------------------------------------------------------
(* Properties *)

\* C1: a target whose normalized path equals the main worktree's path is refused
\* by the guard with a fatal error during resolution, on every platform and
\* under every option: it never becomes a resolved target, nothing is called
\* for it, and the main worktree's directory stays.
C1_MainWorktreeRefused ==
    /\ \A i \in 1..Len(resolved) :
           ~Lies[platform][resolved[i].targetPath].isMain
    /\ log.exitMessage = MainRefusal =>
           /\ Lies[platform][log.refused.targetPath].isMain
           /\ Aborted /\ attempts = <<>> /\ Untouched
    /\ MainPath(platform) \in dirs

\* the main worktree named in another letter case on win32 is refused after
\* an earlier target of the list had been accepted
C1_Witness ==
    /\ log.exitMessage = MainRefusal
    /\ platform = "win32"
    /\ log.refused.targetPath # MainPath(platform)
    /\ Len(resolved) = 1

\* C2: a target strictly inside the main worktree is refused exactly when it is
\* not a registered worktree: every accepted nested target is registered, and
\* the "inside the main worktree" refusal only ever hits an unregistered one.
C2_NestedRefusedIffUnregistered ==
    /\ \A i \in 1..Len(resolved) :
           Lies[platform][resolved[i].targetPath].insideMain
               => resolved[i].registeredPath # NoPath
    /\ log.exitMessage = InsideRefusal =>
           /\ Lies[platform][log.refused.targetPath].insideMain
           /\ log.refused.registeredPath = NoPath
           /\ Aborted /\ Untouched

\* a registered worktree nested in the main worktree has been moved to the
\* trash and unregistered
C2_Witness ==
    \E i \in 1..Len(attempts) :
        /\ resolved[i].targetPath = NestedPath(platform)
        /\ resolved[i].registeredPath = NestedPath(platform)
        /\ attempts[i].trash = "ok"
        /\ attempts[i].unregistered = "ok"

\* C3: a target that is a strict ancestor of the main worktree is refused whether
\* or not it is registered: no resolved target contains the main worktree, so
\* no trash or git call is made for such a directory and the main worktree and
\* its parent stay.
C3_AncestorRefused ==
    /\ \A i \in 1..Len(resolved) :
           ~Lies[platform][resolved[i].targetPath].containsMain
    /\ log.exitMessage = ContainsRefusal =>
           /\ Lies[platform][log.refused.targetPath].containsMain
           /\ Aborted /\ Untouched
    /\ {MainPath(platform), OuterPath(platform)} \subseteq dirs

\* the registered worktree that contains the main worktree is refused
C3_Witness ==
    /\ log.exitMessage = ContainsRefusal
    /\ log.refused.targetPath = OuterPath(platform)
    /\ log.refused.registeredPath = OuterPath(platform)

\* C4: the guard's verdict depends on targetPath, mainPath and registeredPath
\* alone: under every option, --force and --yes included, each resolved target
\* is one the guard accepts, and a refusal is fatal, ends the run, and leaves
\* no confirmation, attempt or mutation behind.
C4_RefusalNotOverridable ==
    /\ \A i \in 1..Len(resolved) :
           Verdict[platform][resolved[i].targetPath]
                  [resolved[i].registeredPath # NoPath] = ""
    /\ log.refused # NoRefusal =>
           /\ log.exitMessage = Verdict[platform][log.refused.targetPath]
                                       [log.refused.registeredPath # NoPath]
           /\ log.exitMessage \in GuardRefusals
           /\ Aborted /\ attempts = <<>> /\ Untouched
           /\ log.mainConfirm = "none"

\* a refusal under --force and --yes
C4_Witness ==
    /\ log.refused # NoRefusal
    /\ opts.force /\ opts.assumeYes /\ ~opts.dryRun
    /\ Aborted

\* C5: in dry-run mode no mutating collaborator is called: no trash move, no git
\* remove or prune, no chdir; the registry, the process cwd and every directory
\* that was there stay as they were.
C5_DryRunMutatesNothing ==
    opts.dryRun =>
        /\ Untouched
        /\ \A i \in 1..Len(resolved) :
               resolved[i].directoryExists
                   => directoryExists(resolved[i].targetPath, dirs, platform)

\* a dry run, started from inside an existing registered worktree that is a
\* target, has gone through every phase
C5_Witness ==
    /\ opts.dryRun
    /\ exitState = "ok"
    /\ invocationCwd = FeatPath(platform)
    /\ \E i \in 1..Len(attempts) :
           /\ resolved[i].registeredPath = FeatPath(platform)
           /\ attempts[i].directoryExistsBefore
           /\ attempts[i].pc = "settled"

\* C6: the dirty-check is over before the main confirmation is presented, and
\* the main confirmation is approved before the first chdir, trash move or git
\* call, and before any removal call starts.
C6_ConfirmationsBeforeMutation ==
    /\ log.mainConfirm # "none" => DirtyPhaseDone
    /\ pc \in {"mainPrompt", "switch", "execute", "report"} => DirtyPhaseDone
    /\ (Mutated \/ attempts # <<>> \/ pc \in {"execute", "report"})
           => log.mainConfirm = "approved" /\ DirtyPhaseDone

\* both prompts were answered with yes, then the cwd was switched and a target
\* was moved to the trash and unregistered
C6_Witness ==
    /\ log.dirtyConfirm = "approved"
    /\ log.mainConfirm = "approved"
    /\ log.chdirCalls = 1
    /\ \E i \in 1..Len(attempts) :
           attempts[i].trash = "ok" /\ UnregisterIssued(attempts[i])

\* C7 as stated: whenever a resolved target is dirty and none of --force,
\* --yes, --dry-run is set, the run past the dirty-check has presented exactly
\* one "Remove anyway?" prompt.
C7_AsStated ==
    (/\ pc \notin {"resolve", "dirty"}
     /\ log.exitMessage \notin ResolutionFailures
     /\ Len(DirtyTargets) >= 1
     /\ NoFlags)
        => log.dirtyPrompts = 1

\* C7: with a dirty registered target and none of --force, --yes, --dry-run, one
\* combined "Remove anyway?" prompt is presented when prompts are allowed, and
\* the run ends with a fatal error, nothing mutated, when they are not; a
\* decline cancels the batch with nothing mutated; with one of the flags set,
\* or without a dirty target, no prompt is presented.
C7_DirtyConfirmation ==
    /\ log.dirtyPrompts <= 1
    /\ log.dirtyPrompts = 1 <=> log.dirtyConfirm \in {"pending", "approved", "declined"}
    /\ log.dirtyPrompts = 1 => NoFlags /\ opts.allowPrompt
    /\ pc = "dirtyPrompt" => Len(DirtyTargets) >= 1
    /\ pc = "confirm" =>
           log.dirtyConfirm = IF Len(DirtyTargets) = 0 THEN "notNeeded"
                              ELSE IF NoFlags THEN "approved"
                              ELSE "waived"
    /\ log.exitMessage = DirtyPromptDisabled =>
           /\ NoFlags /\ ~opts.allowPrompt
           /\ Len(DirtyTargets) >= 1
           /\ log.dirtyPrompts = 0
           /\ Aborted /\ attempts = <<>> /\ Untouched
    /\ log.dirtyConfirm = "declined" =>
           /\ exitState = "cancelled" /\ pc = "done"
           /\ log.mainConfirm = "none"
           /\ attempts = <<>> /\ Untouched

\* the one prompt for two dirty targets has been declined
C7_Witness ==
    /\ log.dirtyConfirm = "declined"
    /\ log.dirtyPrompts = 1
    /\ Len(DirtyTargets) = 2

\* C8: after the main confirmation is declined the batch is cancelled: no call
\* starts, nothing is moved to the trash or unregistered, and the process cwd
\* is unchanged, for any number of targets.
C8_DeclineMutatesNothing ==
    log.mainConfirm = "declined" =>
        /\ exitState = "cancelled" /\ pc = "done"
        /\ attempts = <<>>
        /\ Untouched

\* the confirmation for two targets was declined by a user standing in one of them
C8_Witness ==
    /\ log.mainConfirm = "declined"
    /\ Len(resolved) >= 2
    /\ invocationCwd = FeatPath(platform)
    /\ \E i \in 1..Len(resolved) : resolved[i].targetPath = FeatPath(platform)

\* C9: a target that is ambiguous, not found or refused by the guard aborts the
\* batch in the resolution phase: the run is over with a fatal error, no
\* confirmation was presented, no call started and nothing was mutated, also
\* for the targets resolved before it.
C9_ResolutionFailFast ==
    log.exitMessage \in ResolutionFailures =>
        /\ Aborted
        /\ log.dirtyConfirm = "none" /\ log.mainConfirm = "none"
        /\ log.dirtyPrompts = 0
        /\ attempts = <<>>
        /\ Untouched

\* a target was not found after an earlier target of the list had resolved
C9_Witness ==
    /\ log.exitMessage = "notFound"
    /\ Len(resolved) >= 1
    /\ Aborted

\* C10: in one removal call whose existence check found the directory, git is
\* called only after the trash move has returned, with success or failure;
\* while the trash move is pending no git call has been made.
C10_TrashBeforeUnregister ==
    \A i \in 1..Len(attempts) :
        /\ (UnregisterIssued(attempts[i]) /\ attempts[i].directoryExistsBefore)
               => attempts[i].trash \in {"ok", "failed"}
        /\ attempts[i].pc = "trashing"
               => attempts[i].trash = "pending" /\ ~UnregisterIssued(attempts[i])

\* git was called after a failed trash move
C10_Witness ==
    \E i \in 1..Len(attempts) :
        /\ attempts[i].directoryExistsBefore
        /\ attempts[i].trash = "failed"
        /\ UnregisterIssued(attempts[i])

\* C11: for a single registered target without --force, a declined escalation
\* prompt after a failed trash move ends the call as cancelled: no git remove
\* or prune is issued, the worktree stays registered and its directory stays.
C11_DeclinedEscalationCancels ==
    \A i \in 1..Len(attempts) :
        attempts[i].escalation = "declined" =>
            /\ Len(resolved) = 1 /\ ~opts.force
            /\ resolved[i].registeredPath # NoPath
            /\ attempts[i].trash = "failed"
            /\ attempts[i].pc = "settled"
            /\ attempts[i].outcome = "cancelled"
            /\ ~UnregisterIssued(attempts[i])
            /\ attempts[i].unregistered = "none"
            /\ registry = InitialRegistry(platform)
            /\ resolved[i].registeredPath \in registry
            /\ directoryExists(resolved[i].targetPath, dirs, platform)
            /\ pc = "done" => exitState = "cancelled"

\* the run of a single registered target has ended after the escalation prompt
\* was declined
C11_Witness ==
    /\ pc = "done"
    /\ exitState = "cancelled"
    /\ \E i \in 1..Len(attempts) :
           /\ attempts[i].escalation = "declined"
           /\ resolved[i].registeredPath = FeatPath(platform)

\* C12: when the trash move fails for a target that is not a registered
\* worktree, the call ends at once as failed, whatever --force and --yes say:
\* no escalation prompt, no git remove or prune, no further step for it.
C12_UnregisteredTrashFailureFails ==
    \A i \in 1..Len(attempts) :
        (resolved[i].registeredPath = NoPath /\ attempts[i].trash = "failed") =>
            /\ attempts[i].pc = "settled"
            /\ attempts[i].outcome = "failed"
            /\ attempts[i].escalation = "none"
            /\ ~UnregisterIssued(attempts[i])
            /\ attempts[i].unregistered = "none"
            /\ ~attempts[i].movedToTrash
            /\ ~attempts[i].forceUnregister \/ opts.force

\* under --force and --yes the trash move of an unregistered directory has
\* failed
C12_Witness ==
    /\ opts.force /\ opts.assumeYes /\ ~opts.dryRun
    /\ \E i \in 1..Len(attempts) :
           /\ resolved[i].registeredPath = NoPath
           /\ resolved[i].targetPath = OrphanPath(platform)
           /\ attempts[i].trash = "failed"
           /\ attempts[i].outcome = "failed"

\* C13: a failed unregisterWorktree never makes the call's outcome failed: the
\* call that issued it settles as ok, as it does when unregistering succeeds,
\* and a single-target run whose unregistering failed exits with success.
C13_UnregisterFailureOnlyWarns ==
    /\ \A i \in 1..Len(attempts) :
           (attempts[i].pc = "settled" /\ attempts[i].unregistered # "none")
               => attempts[i].outcome = "ok"
    /\ (/\ pc = "done" /\ Len(attempts) = 1
        /\ attempts[1].unregistered = "failed")
           => exitState = "ok"

\* the target was moved to the trash, git could not unregister it, and the
\* run has ended
C13_Witness ==
    /\ pc = "done"
    /\ exitState = "ok"
    /\ Len(attempts) = 1
    /\ attempts[1].trash = "ok"
    /\ attempts[1].unregistered = "failed"

\* C14: at every instant of the execution phase at most PoolLimit (4) removal
\* calls are in flight, started and not yet settled, however many targets the
\* batch has.
C14_AtMostFourInFlight ==
    /\ InFlight(attempts) <= PoolLimit
    /\ Len(attempts) \in {0, Len(resolved)}

\* a batch of more than four targets: four calls are in flight, one has
\* settled and let the fifth start, another is still queued or has settled
C14_Witness ==
    /\ Len(attempts) > PoolLimit
    /\ InFlight(attempts) = PoolLimit
    /\ attempts[PoolLimit + 1].pc \notin {"queued", "settled"}
    /\ \E i \in 1..PoolLimit : attempts[i].pc = "settled"

\* C15: once the execution phase has started there is one removal call per
\* resolved target; while a call is unsettled the batch waits, a queued call
\* waits only for a full pool, and the report is made only when every call has
\* settled with an outcome of its own: a call that failed neither ends the
\* batch nor keeps another call from starting and settling.
C15_SettleAll ==
    /\ pc \in {"execute", "report"} => Len(attempts) = Len(resolved)
    /\ pc = "execute" =>
           /\ \E i \in 1..Len(attempts) :
                  attempts[i].pc \in {"checkExists", "trashing", "recheck"}
           /\ \A i \in 1..Len(attempts) :
                  attempts[i].pc = "queued" => InFlight(attempts) = PoolLimit
    /\ (pc = "report" \/ (pc = "done" /\ attempts # <<>>)) =>
           \A i \in 1..Len(attempts) :
               /\ attempts[i].pc = "settled"
               /\ attempts[i].outcome \in {"ok", "failed"}
    /\ \A i \in 1..Len(attempts) :
           attempts[i].pc = "settled" <=> attempts[i].outcome # "none"

\* the third call has failed while the first, second and fourth were in
\* flight, and its return has let the queued fifth start
C15_Witness ==
    /\ pc = "execute"
    /\ Len(attempts) > PoolLimit
    /\ attempts[3].outcome = "failed"
    /\ \A i \in {1, 2, 4} : attempts[i].pc \notin {"queued", "settled"}
    /\ attempts[PoolLimit + 1].pc = "checkExists"

\* C16: the removal calls of one batch target pairwise distinct paths, so no
\* two calls that are in flight at the same time work on the same path.
C16_DistinctTargetPaths ==
    \A i, j \in 1..Len(attempts) :
        (/\ i # j
         /\ attempts[i].pc \notin {"queued", "settled"}
         /\ attempts[j].pc \notin {"queued", "settled"})
            => normalizePathKey(resolved[i].targetPath, platform)
                   # normalizePathKey(resolved[j].targetPath, platform)

C20_BatchReport ==
    /\ (pc = "done" /\ Len(attempts) > 1) =>
           LET ok == {i \in 1..Len(attempts) : attempts[i].outcome = "ok"} IN
           /\ exitState \in {"ok", "fatal"}
           /\ exitState = "fatal" <=> \E i \in 1..Len(attempts) : i \notin ok
           /\ log.summary.succeeded = Cardinality(ok)
           /\ log.summary.succeeded + log.summary.failed = Len(resolved)
           /\ log.summary.entries = Len(resolved)
    /\ pc # "done" => log.summary.entries = 0

\* a batch of five has ended with failure: three targets removed, two not
C20_Witness ==
    /\ pc = "done"
    /\ exitState = "fatal"
    /\ Len(attempts) > 1
    /\ log.summary.succeeded = 3
    /\ log.summary.failed = Len(attempts) - 3

\* C21: a batch of exactly one target ends as its one call ended: ok ends the
\* run with success, cancelled ends it cleanly without a failure exit, and
\* failed ends it with a failure exit.
C21_SingleTargetOutcome ==
    (/\ pc = "done"
     /\ Len(attempts) = 1
     /\ attempts[1].pc = "settled") =>
        /\ attempts[1].outcome = "ok" => exitState = "ok"
        /\ attempts[1].outcome = "cancelled" => exitState = "cancelled"
        /\ attempts[1].outcome = "failed" =>
               exitState = "fatal" /\ log.exitMessage = "Removal failed."
        /\ log.summary.entries = 0

\* the trash move of the one unregistered target failed and the run has ended
\* with a failure exit
C21_Witness ==
    /\ pc = "done"
    /\ exitState = "fatal"
    /\ Len(attempts) = 1
    /\ resolved[1].registeredPath = NoPath
    /\ attempts[1].outcome = "failed"
    /\ log.exitMessage = "Removal failed."

\* C22 as stated: a run that has executed its removals (not a dry run) and
\* leaves a requested target on disk or registered does not end with success.
C22_AsStated ==
    (/\ Executed /\ ~opts.dryRun
     /\ \E i \in 1..Len(resolved) : NotFullyRemoved(i))
        => exitState # "ok"

\* C22: a run ends with a failure exit whenever a call ended as failed, even
\* if other targets were removed; a run that ends with success can still leave
\* a target registered or on disk, and then only because unregisterWorktree
\* failed for it, which the call reports as a warning.
C22_FailureOnFailedAttempt ==
    Executed =>
        /\ (\E i \in 1..Len(attempts) : attempts[i].outcome = "failed")
               => exitState = "fatal"
        /\ (exitState = "ok" /\ ~opts.dryRun) =>
               \A i \in 1..Len(attempts) :
                   NotFullyRemoved(i) =>
                       /\ attempts[i].outcome = "ok"
                       /\ attempts[i].unregistered = "failed"

\* under --force the first target was removed; the trash move of the nested
\* worktree failed and so did its unregistering: it is still on disk and
\* registered, and the batch has ended with success
C22_Witness ==
    /\ Executed
    /\ exitState = "ok"
    /\ opts.force /\ ~opts.dryRun
    /\ Len(attempts) = 2
    /\ ~NotFullyRemoved(1)
    /\ resolved[2].targetPath = NestedPath(platform)
    /\ attempts[2].trash = "failed"
    /\ attempts[2].unregistered = "failed"
    /\ NestedPath(platform) \in dirs
    /\ NestedPath(platform) \in registry

\* C23: in a run that is not a dry run and whose invocation cwd is a resolved
\* target or inside one, and not the main worktree, the process cwd is the main
\* worktree before any removal call starts, hence before the first trash move
\* or git call; the one chdir comes after the main confirmation was approved,
\* and a chdir that fails ends the run before any removal call.
C23_CwdSwitchBeforeRemoval ==
    /\ (attempts # <<>> /\ ~opts.dryRun /\ SwitchDue) =>
           /\ processCwd = MainPath(platform)
           /\ log.chdirCalls = 1
    /\ log.chdirCalls > 0 =>
           /\ log.chdirCalls = 1
           /\ log.mainConfirm = "approved"
           /\ ~opts.dryRun /\ SwitchDue
    /\ processCwd # invocationCwd =>
           processCwd = MainPath(platform) /\ log.chdirCalls = 1
    /\ log.exitMessage = "Failed to switch directory." =>
           /\ Aborted /\ attempts = <<>>
           /\ processCwd = invocationCwd
           /\ registry = InitialRegistry(platform)

\* the run was started inside the worktree feat, one of its two targets; the
\* main confirmation was answered with yes, the process cwd is the main
\* worktree, and the first trash move is under way
C23_Witness ==
    /\ invocationCwd = FeatPath(platform)
    /\ processCwd = MainPath(platform)
    /\ log.mainConfirm = "approved"
    /\ ~opts.assumeYes
    /\ Len(attempts) = 2
    /\ \E i \in 1..2 : attempts[i].trash = "pending"
    /\ \A i \in 1..2 : attempts[i].trash \in {"none", "pending"}
                       /\ ~UnregisterIssued(attempts[i])

\* C24: with prompts disabled (allowPrompt false) no confirmation prompt is
\* presented in any phase: the dirty check, the main confirmation and the
\* trash-failure escalation are each waived by a flag or end the run with a
\* fatal error.
C24_NoPromptWhenDisabled ==
    ~opts.allowPrompt =>
        /\ PendingPrompts = 0
        /\ log.dirtyPrompts = 0
        /\ log.dirtyConfirm \in {"none", "notNeeded", "waived"}
        /\ log.mainConfirm \in {"none", "approved"}
        /\ \A i \in 1..Len(attempts) : attempts[i].escalation = "none"
        /\ log.mainConfirm = "approved" => opts.assumeYes \/ opts.dryRun
        /\ log.dirtyConfirm = "waived" =>
               opts.force \/ opts.assumeYes \/ opts.dryRun
        /\ exitState # "cancelled"
        /\ (pc = "done" /\ attempts = <<>>) => exitState = "fatal"

\* with prompts disabled and --force alone, the dirty check was waived and the
\* main confirmation has ended the run with "Confirmation required."
C24_Witness ==
    /\ ~opts.allowPrompt
    /\ opts.force /\ ~opts.assumeYes /\ ~opts.dryRun
    /\ log.dirtyConfirm = "waived"
    /\ log.exitMessage = "Confirmation required."
    /\ Aborted

\* C25: with --force, and neither --yes nor --dry-run, the main confirmation
\* is skipped: it is neither presented nor does it end the run, and the
\* removal goes on without asking.
C25_ForceSkipsMainConfirmation ==
    (opts.force /\ ~opts.assumeYes /\ ~opts.dryRun) =>
        /\ pc # "mainPrompt"
        /\ log.mainConfirm \in {"none", "approved"}
        /\ log.exitMessage # "Confirmation required."

\* the trash-failure escalation of the attempt was approved: by the user's
\* answer, or by --yes, under which confirmAction approves without asking
EscalationApproved(a) ==
    \/ a.escalation = "approved"
    \/ a.trash = "failed" /\ a.escalation = "none" /\ opts.assumeYes

\* C32: the deregister request of an attempt is issued in forced mode exactly
\* when --force is set or the trash-failure escalation of the target was
\* approved; a forced `git worktree remove` is run only then, and never after
\* a successful move to the trash, or for a directory that did not exist,
\* without --force.
C32_ForcedDeregisterOnlyWhenApproved ==
    \A i \in 1..Len(attempts) :
        UnregisterIssued(attempts[i]) =>
            /\ attempts[i].forceUnregister
                   <=> (opts.force \/ EscalationApproved(attempts[i]))
            /\ (\E n \in 1..Len(attempts[i].gitCalls) :
                    attempts[i].gitCalls[n] = "removeForce")
                   => (opts.force \/ EscalationApproved(attempts[i]))
            /\ (attempts[i].trash \in {"none", "ok"} /\ ~opts.force)
                   => /\ ~attempts[i].forceUnregister
                      /\ \A n \in 1..Len(attempts[i].gitCalls) :
                             attempts[i].gitCalls[n] # "removeForce"

\* without --force, the user approved the escalation and the forced remove ran
C32_Witness ==
    \E i \in 1..Len(attempts) :
        /\ ~opts.force
        /\ attempts[i].escalation = "approved"
        /\ attempts[i].forceUnregister
        /\ Len(attempts[i].gitCalls) >= 2
        /\ attempts[i].gitCalls[2] = "removeForce"

\* C38: the process working directory is changed at most once per run and
\* only to the main worktree; when the invocation cwd is outside every resolved
\* target, or is the main worktree, it is never changed, and the cwd at the
\* end of the run is the cwd the run started in.
C38_CwdChangedAtMostOnce ==
    /\ log.chdirCalls <= 1
    /\ processCwd \in {invocationCwd, MainPath(platform)}
    /\ ~SwitchDue =>
           /\ log.chdirCalls = 0
           /\ processCwd = invocationCwd
    /\ (pc = "done" /\ log.chdirCalls = 0) => processCwd = invocationCwd

\* a run started in the worktree feat that removed another worktree and never
\* left its directory
C38_Witness ==
    /\ Executed
    /\ ~opts.dryRun
    /\ invocationCwd = FeatPath(platform)
    /\ ~SwitchDue
    /\ \E i \in 1..Len(attempts) : attempts[i].movedToTrash
    /\ log.chdirCalls = 0
    /\ processCwd = invocationCwd

\* the report has been produced for a batch all of whose calls were started
\* and have settled
ReportedAfterAllSettled ==
    /\ pc = "done"
    /\ Len(attempts) = Len(resolved)
    /\ AllSettled(attempts)
    /\ log.summary.entries = Len(resolved)

\* C37: when every collaborator call returns, a confirmed batch of N targets,
\* N above the pool limit included, eventually starts and settles all N
\* attempts: from some moment on no call is queued or running, so no target
\* waits for a pool slot forever; the report is produced once, and only after
\* all N attempts have settled.
C37_BatchSettlesThenReports ==
    /\ <>[]ReportedAfterAllSettled
    /\ [](pc \in {"report", "done"} =>
              Len(attempts) = Len(resolved) /\ AllSettled(attempts))
    /\ [][log'.summary # log.summary => pc = "report" /\ pc' = "done"]_vars
    /\ [][pc = "done" => UNCHANGED vars]_vars

\* a batch larger than the pool has been reported with every call settled
C37_Witness ==
    /\ ReportedAfterAllSettled
    /\ Len(resolved) > PoolLimit
    /\ \E i \in 1..Len(attempts) : attempts[i].outcome = "ok"

\* what holds of every attempt at every moment: a trash move was issued only
\* for a directory the first existence check found, and git was called only
\* for a registered target, by one call of unregisterWorktree
AttemptCallsJustified(atts) ==
    \A i \in 1..Len(atts) :
        /\ TrashIssued(atts[i]) => atts[i].directoryExistsBefore
        /\ atts[i].movedToTrash => atts[i].trash = "ok"
        /\ UnregisterIssued(atts[i]) =>
               /\ resolved[i].registeredPath # NoPath
               /\ atts[i].gitCalls[1] = "remove"
               /\ \A n \in 2..Len(atts[i].gitCalls) :
                      atts[i].gitCalls[n] # "remove"

\* what holds of every step: a trash move is started only by an attempt that
\* has not started one, and the git calls of an attempt, once made, are not
\* added to
AttemptCallsNotRepeated ==
    \A i \in 1..Len(attempts) :
        i <= Len(attempts') =>
            /\ (attempts'[i].trash = "pending" /\ attempts[i].trash # "pending")
                   => attempts[i].trash = "none"
            /\ attempts[i].trash \in {"ok", "failed"}
                   => attempts'[i].trash = attempts[i].trash
            /\ UnregisterIssued(attempts[i])
                   => attempts'[i].gitCalls = attempts[i].gitCalls

\* C40: in every removal attempt the move to the trash is invoked at most
\* once, and only when the first existence check found the directory; the
\* deregister request is issued at most once, and never for a target without
\* a registeredPath.
C40_CallsOncePerAttempt ==
    [][/\ AttemptCallsJustified(attempts)
       /\ AttemptCallsJustified(attempts')
       /\ AttemptCallsNotRepeated]_vars

\* an orphaned directory was moved to the trash and its attempt has settled
\* without a git call
C40_Witness ==
    \E i \in 1..Len(attempts) :
        /\ resolved[i].registeredPath = NoPath
        /\ attempts[i].directoryExistsBefore
        /\ attempts[i].movedToTrash
        /\ attempts[i].pc = "settled"
        /\ ~UnregisterIssued(attempts[i])

\* what resolveWorktreeTarget returns for each raw input of the batch runs,
\* from each directory a run can start in, tabulated once
ResolverTable ==
    [plat \in Platforms |->
        [c \in {MainPath(plat), FeatPath(plat)} |->
            [input \in RawInputs |->
                resolveWorktreeTarget(input, c, MainPath(plat), Worktrees(plat),
                                      plat)]]]

\* the input was not matched by any registered entry
Unresolved(input) ==
    ResolverTable[platform][invocationCwd][input].kind = "candidates"

CandidatesOf(input) ==
    ResolverTable[platform][invocationCwd][input].candidatePaths

\* the positions of the candidates of the input that exist as directories
ExistingOf(input) ==
    {n \in 1..Len(CandidatesOf(input)) :
         directoryExists(CandidatesOf(input)[n], dirs, platform)}

\* C31: probing the candidates of an unresolved input. A target resolved from
\* candidates is the one candidate that exists, and is unregistered; the
\* not-found error ends the run exactly for an input none of whose candidates
\* exists, the multiple-directories error for an input with two existing
\* candidates; after either error nothing has been removed.
C31_CandidateProbing ==
    /\ log.exitMessage = "notFound" =>
           /\ Aborted /\ Untouched /\ attempts = <<>>
           /\ Unresolved(log.failedInput)
           /\ ExistingOf(log.failedInput) = {}
    /\ log.exitMessage = "multiple" =>
           /\ Aborted /\ Untouched /\ attempts = <<>>
           /\ Unresolved(log.failedInput)
           /\ Cardinality(ExistingOf(log.failedInput)) = 2
    /\ attempts = <<>> =>
           \A i \in 1..Len(resolved) :
               Unresolved(resolved[i].input) =>
                   /\ resolved[i].registeredPath = NoPath
                   /\ \E n \in 1..Len(CandidatesOf(resolved[i].input)) :
                          /\ ExistingOf(resolved[i].input) = {n}
                          /\ resolved[i].targetPath
                                 = CandidatesOf(resolved[i].input)[n]

\* after a first target has resolved, both candidates of the second exist
C31_Witness ==
    /\ Aborted
    /\ log.exitMessage = "multiple"
    /\ Len(resolved) = 1
    /\ Cardinality(ExistingOf(log.failedInput)) = 2

\* C39: no resolved target is a filesystem root. An input whose one existing
\* candidate is a root ends the run with a fatal error during resolution: the
\* guard is never asked about a root, no confirmation is presented and nothing
\* is mutated.
C39_NoRootTarget ==
    /\ \A i \in 1..Len(resolved) : resolved[i].targetPath.segs # <<>>
    /\ log.refused # NoRefusal => log.refused.targetPath.segs # <<>>
    /\ log.exitMessage = "root" =>
           /\ Aborted /\ Untouched /\ attempts = <<>>
           /\ log.refused = NoRefusal
           /\ log.dirtyConfirm = "none" /\ log.mainConfirm = "none"
           /\ \E n \in ExistingOf(log.failedInput) :
                  CandidatesOf(log.failedInput)[n].segs = <<>>

\* the root given as the second target, after a first target has resolved
C39_Witness ==
    /\ Aborted
    /\ log.exitMessage = "root"
    /\ Len(resolved) = 1
    /\ log.failedInput = Rooted(<<>>)

----------------------------------------------------------------------------
(* Claims about resolveWorktreeTarget, over the calls recorded in call *)

\* the input of the call is name-like: not blank and not path-like
NameLikeCall == call.input # BlankInput /\ ~looksLikePathInput(call.input)

PathLikeCall == looksLikePathInput(call.input)

\* the normalized name of a name-like input
NormalizedName == normalizeBranchName(call.input.segs)

\* the entries of the call whose branch is the normalized name of the input
BranchHits ==
    {i \in 1..Len(call.worktrees) :
         /\ call.worktrees[i].branch # NoBranch
         /\ call.worktrees[i].branch = NormalizedName}

\* the entries of the call whose path is p, compared as the platform compares
PathHits(p) ==
    {i \in 1..Len(call.worktrees) :
         normalizePathKey(call.worktrees[i].path, platform)
             = normalizePathKey(p, platform)}

\* C26: a name-like input whose normalized name is the branch of a registered
\* entry resolves to Registered with that entry from every working directory,
\* so two resolutions that differ only in cwd return the same entry.
C26_BranchMatchIgnoresCwd ==
    \A i \in BranchHits :
        NameLikeCall =>
            \A k \in 1..Len(call.results) :
                /\ call.results[k].result.kind = "registered"
                /\ call.results[k].result.worktree = call.worktrees[i]

\* two calls from different directories, one of which makes the input resolve
\* to the path of another registered entry
C26_Witness ==
    /\ NameLikeCall
    /\ BranchHits # {}
    /\ Len(call.results) >= 2
    /\ call.results[1].cwd # call.results[2].cwd
    /\ \E j \in PathHits(PathResolve(call.results[1].cwd, call.input)) :
           j \notin BranchHits
    /\ call.results[1].result = call.results[2].result

\* the pairs of registered entries with one basename under different parents,
\* when the input is that basename
SharedBasenamePairs ==
    {pair \in (1..Len(call.worktrees)) \X (1..Len(call.worktrees)) :
         /\ pair[1] # pair[2]
         /\ PathBasename(call.worktrees[pair[1]].path)
                = PathBasename(call.worktrees[pair[2]].path)
         /\ PathDirname(call.worktrees[pair[1]].path)
                # PathDirname(call.worktrees[pair[2]].path)
         /\ call.input = Name(PathBasename(call.worktrees[pair[1]].path))}

\* the sibling of the main worktree named <main-basename>-<name>
ConventionalSibling(name) ==
    [root |-> MainPath(platform).root,
     segs |-> OuterPath(platform).segs
                  \o <<PathBasename(MainPath(platform)) \o "-" \o Head(name)>>
                  \o Tail(name)]

\* the sibling of the main worktree named as the input
LiteralSibling ==
    [root |-> MainPath(platform).root,
     segs |-> OuterPath(platform).segs \o call.input.segs]

\* the input of the call matches a registered entry by branch, or by one of the
\* three paths tried from the working directory cwd
MatchesDirectly(cwd) ==
    \/ BranchHits # {}
    \/ PathHits(PathResolve(cwd, call.input)) # {}
    \/ PathHits(ConventionalSibling(NormalizedName)) # {}
    \/ PathHits(LiteralSibling) # {}

\* C27 as stated: whenever two registered entries have the same basename under
\* different parents and the input is that basename, the result is Ambiguous
\* and names the input.
C27_AsStated ==
    SharedBasenamePairs # {} =>
        \A k \in 1..Len(call.results) :
            /\ call.results[k].result.kind = "ambiguous"
            /\ call.results[k].result.input = call.input

\* C27: when two registered entries have the same basename under different
\* parents, the input is that basename, and the input matches no entry by
\* branch or by path, the result is Ambiguous and names the input.
C27_AmbiguousBasename ==
    SharedBasenamePairs # {} =>
        \A k \in 1..Len(call.results) :
            ~MatchesDirectly(call.results[k].cwd) =>
                /\ call.results[k].result.kind = "ambiguous"
                /\ call.results[k].result.input = call.input

C27_Witness ==
    /\ SharedBasenamePairs # {}
    /\ Len(call.results) >= 1
    /\ ~MatchesDirectly(call.results[1].cwd)
    /\ call.results[1].result.kind = "ambiguous"

\* the normalized name of a name-like input has a ".." segment
UpwardName ==
    /\ NameLikeCall
    /\ \E i \in 1..Len(NormalizedName) : NormalizedName[i] = ".."

\* C28: a name-like input whose normalized name contains a ".." segment is
\* resolved as Ambiguous in every call, whatever is registered: it yields no
\* Registered entry and no candidate paths.
C28_UpwardNameAmbiguous ==
    UpwardName =>
        \A k \in 1..Len(call.results) :
            /\ call.results[k].result.kind = "ambiguous"
            /\ call.results[k].result.input = call.input
            /\ call.results[k].result.worktree = NoWorktree
            /\ call.results[k].result.candidatePaths = <<>>

\* a call where the input with its ".." segment, resolved against the cwd, is
\* the path of a registered entry
C28_Witness ==
    /\ UpwardName
    /\ Len(call.results) >= 1
    /\ PathHits(PathResolve(call.results[1].cwd, call.input)) # {}
    /\ call.results[1].result.kind = "ambiguous"

\* the absolute path a path-like input stands for, seen from cwd
PathOfInput(cwd) ==
    PathResolve(cwd,
                IF call.input.lead = "~"
                THEN [lead |-> "/", segs |-> HomeDir(platform).segs \o call.input.segs]
                ELSE call.input)

\* the entry w is reached from the input as a path: it is registered at the
\* path of the input, or the input is a single segment and its basename
PathOrBasenameOf(w, cwd) ==
    \/ normalizePathKey(w.path, platform)
           = normalizePathKey(PathOfInput(cwd), platform)
    \/ /\ call.input.lead = ""
       /\ Len(call.input.segs) = 1
       /\ IF platform = "win32"
          THEN ToLower(PathBasename(w.path)) = ToLower(call.input.segs[1])
          ELSE PathBasename(w.path) = call.input.segs[1]

\* C29: path-like input is never normalized as a branch name: a Registered
\* result is the entry at the path of the input (or with the input as its
\* basename), never an entry found by branch or at the conventional sibling
\* path, and the candidates are the path of the input alone.
C29_PathInputNotNormalized ==
    PathLikeCall =>
        \A k \in 1..Len(call.results) :
            /\ call.results[k].result.kind = "registered" =>
                   /\ call.results[k].result.isPathInput
                   /\ PathOrBasenameOf(call.results[k].result.worktree,
                                       call.results[k].cwd)
            /\ call.results[k].result.kind = "candidates" =>
                   /\ call.results[k].result.isPathInput
                   /\ call.results[k].result.candidatePaths
                          = <<PathOfInput(call.results[k].cwd)>>
            /\ call.results[k].result.kind = "ambiguous" =>
                   Len(basenameMatches(call.worktrees, call.input, platform)) > 1

\* a path-like input whose conventional sibling path is registered, and which
\* still resolves to its own path as the only candidate
C29_Witness ==
    /\ PathLikeCall
    /\ Len(call.results) >= 1
    /\ PathHits(ConventionalSibling(call.input.segs)) # {}
    /\ call.results[1].result.kind = "candidates"
    /\ call.results[1].result.candidatePaths = <<PathOfInput(call.results[1].cwd)>>

NoDuplicates(paths) ==
    \A i, j \in 1..Len(paths) : paths[i] = paths[j] => i = j

\* the literal sibling, listed only for an input without a path separator
LiteralSiblingIfPlain ==
    IF Len(call.input.segs) = 1 THEN <<LiteralSibling>> ELSE <<>>

\* C30 as stated: a Candidates result has no duplicates; for path-like input it
\* is the resolved path alone; for name-like input it starts with the
\* conventional sibling path, followed by the literal sibling only when the
\* input has no path separator.
C30_AsStated ==
    \A k \in 1..Len(call.results) :
        call.results[k].result.kind = "candidates" =>
            /\ NoDuplicates(call.results[k].result.candidatePaths)
            /\ PathLikeCall =>
                   call.results[k].result.candidatePaths
                       = <<PathOfInput(call.results[k].cwd)>>
            /\ NameLikeCall =>
                   call.results[k].result.candidatePaths
                       = <<ConventionalSibling(NormalizedName)>>
                             \o LiteralSiblingIfPlain

\* C30: as above, for a name-like input whose normalized name is not empty;
\* when the normalized name is empty (input "origin/") the conventional
\* sibling path is left out.
C30_CandidateList ==
    \A k \in 1..Len(call.results) :
        call.results[k].result.kind = "candidates" =>
            /\ NoDuplicates(call.results[k].result.candidatePaths)
            /\ PathLikeCall =>
                   call.results[k].result.candidatePaths
                       = <<PathOfInput(call.results[k].cwd)>>
            /\ NameLikeCall /\ NormalizedName # <<"">> =>
                   call.results[k].result.candidatePaths
                       = <<ConventionalSibling(NormalizedName)>>
                             \o LiteralSiblingIfPlain
            /\ NameLikeCall /\ NormalizedName = <<"">> =>
                   call.results[k].result.candidatePaths = LiteralSiblingIfPlain

\* a name without a separator that nothing registered matches: both siblings,
\* the conventional one first
C30_Witness ==
    /\ NameLikeCall
    /\ Len(call.results) >= 1
    /\ call.results[1].result.kind = "candidates"
    /\ Len(call.results[1].result.candidatePaths) = 2
    /\ call.results[1].result.candidatePaths[1] = ConventionalSibling(NormalizedName)

\* the entries registered at one of the paths the resolver tries for the input
\* from cwd: the path of the input, the conventional sibling of a non-empty
\* normalized name, the literal sibling of a name without a separator
DirectHits(cwd) ==
    PathHits(PathOfInput(cwd))
        \cup (IF NameLikeCall /\ NormalizedName # <<"">>
              THEN PathHits(ConventionalSibling(NormalizedName)) ELSE {})
        \cup (IF NameLikeCall /\ Len(call.input.segs) = 1
              THEN PathHits(LiteralSibling) ELSE {})

\* the entries whose basename is the input
BasenameHits ==
    {i \in 1..Len(call.worktrees) :
         /\ call.input.lead = ""
         /\ Len(call.input.segs) = 1
         /\ IF platform = "win32"
            THEN ToLower(PathBasename(call.worktrees[i].path))
                     = ToLower(call.input.segs[1])
            ELSE PathBasename(call.worktrees[i].path) = call.input.segs[1]}

\* C33: the precedence of the resolution is strict. A branch match returns
\* that entry, also when another entry is registered at a path of the input; a
\* path match returns an entry at such a path, whatever the basenames; and a
\* result that rests on basenames (a Registered entry found by basename alone,
\* or Ambiguous for several of them) occurs only when neither matched.
C33_StrictPrecedence ==
    \A k \in 1..Len(call.results) :
        LET r == call.results[k].result
            direct == DirectHits(call.results[k].cwd)
        IN  ~UpwardName =>
                /\ (NameLikeCall /\ BranchHits # {}) =>
                       /\ r.kind = "registered"
                       /\ \E i \in BranchHits : r.worktree = call.worktrees[i]
                /\ (~(NameLikeCall /\ BranchHits # {}) /\ direct # {}) =>
                       /\ r.kind = "registered"
                       /\ \E i \in direct : r.worktree = call.worktrees[i]
                /\ r.kind = "ambiguous" =>
                       /\ ~(NameLikeCall /\ BranchHits # {})
                       /\ direct = {}
                       /\ Cardinality(BasenameHits) > 1

\* a call where one entry is registered at the literal sibling path and two
\* entries have the input as their basename: the entry at the path is returned
C33_Witness ==
    /\ NameLikeCall
    /\ BranchHits = {}
    /\ Len(call.results) >= 1
    /\ DirectHits(call.results[1].cwd) # {}
    /\ Cardinality(BasenameHits) > 1
    /\ call.results[1].result.kind = "registered"
    /\ \E i \in DirectHits(call.results[1].cwd) :
           call.results[1].result.worktree = call.worktrees[i]

----------------------------------------------------------------------------
(* Claims about parseWorktreeListPorcelain *)

\* C34: every entry the parser returns has a branch only when it is not
\* detached, whatever the order of the lines within a block.
C34_BranchOnlyWhenAttached ==
    call.returned =>
        \A i \in 1..Len(call.worktrees) :
            call.worktrees[i].branch # NoBranch => ~call.worktrees[i].isDetached

----------------------------------------------------------------------------
(* Claims about unregisterWorktree, over the calls recorded in call *)

\* the positions of the forced removes among the git calls of the result r
ForcedRemoves(r) == {n \in 1..Len(r.calls) : r.calls[n] = "removeForce"}

Prunes(r) == {n \in 1..Len(r.calls) : r.calls[n] = "prune"}

\* the position of the last `git worktree remove` of the result r
LastRemove(r) == IF ForcedRemoves(r) # {} THEN 2 ELSE 1

\* C35: unregisterWorktree always issues a non-forced remove first; a forced
\* remove is issued only as the second call, only under options.force and only
\* after the non-forced remove failed; without options.force no forced remove
\* is issued, whatever the backend replies.
C35_ForcedRemoveOnlyUnderForce ==
    \A k \in 1..Len(call.results) :
        LET r == call.results[k] IN
        /\ Len(r.calls) >= 1
        /\ r.calls[1] = "remove"
        /\ ForcedRemoves(r) \subseteq {2}
        /\ ForcedRemoves(r) # {} <=> (r.force /\ r.replies[1] # "ok")
        /\ ~r.force => ForcedRemoves(r) = {}

\* a call without options.force whose remove is refused for local modifications
C35_Witness ==
    \E k \in 1..Len(call.results) :
        /\ ~call.results[k].force
        /\ call.results[k].replies = <<"needsForce">>
        /\ call.results[k].calls = <<"remove">>
        /\ ~call.results[k].ok

\* C36: prune is issued exactly when the last remove reported that the path
\* is gone or is not a working tree; it is then the last call and the result
\* is ok exactly when the prune succeeded. After a remove that succeeded or
\* that failed for another reason no prune is issued.
C36_PruneOnlyWhenGone ==
    \A k \in 1..Len(call.results) :
        LET r == call.results[k] IN
        /\ Prunes(r) # {} <=> r.replies[LastRemove(r)] = "gone"
        /\ Prunes(r) \subseteq {Len(r.calls)}
        /\ Prunes(r) # {} => (r.ok <=> r.replies[Len(r.calls)] = "ok")
        /\ Prunes(r) = {} => (r.ok <=> r.replies[LastRemove(r)] = "ok")

\* a second call for a path whose first call has removed it: the remove says
\* the path is gone, the prune fails, and the call is not ok
C36_Witness ==
    \E k \in 1..Len(call.results) :
        /\ call.results[k].replies[LastRemove(call.results[k])] = "gone"
        /\ call.results[k].calls[Len(call.results[k].calls)] = "prune"
        /\ call.results[k].replies[Len(call.results[k].calls)] = "fail"
        /\ ~call.results[k].ok

====
